---- MODULE Spec2Model ----
(***************************************************************************)
(* Verification model of the circuit DSL compiler (src/interpreter.py,     *)
(* src/parser.py, src/lexer.py): connectivity resolution, subcircuit       *)
(* flattening and expression evaluation.                                   *)
(***************************************************************************)
EXTENDS Integers, Sequences, FiniteSets, TLC

VARIABLES
    interp,      \* the fields of one Interpreter: node_counter, nodes,
                 \* terminal_connections, and the NetlistNode objects it made
    program,     \* program.connections processed so far, in source order
    conn_nets,   \* conn_nets[i]: the target_node chosen for program[i]
    flat_in,     \* the Program handed to SubcircuitFlattener.flatten_program
    flat_subcircuits, \* self.subcircuits of that SubcircuitFlattener
    flat_out,    \* what flatten_program returned, and the flattener's counter
    flat_pc,     \* "idle", "start" (before the call) or "done" (after it)
    compilations, \* compilations[k]: the Interpreter and SubcircuitFlattener
                 \* instances of compilation k, and what each was given
    eval_expr,   \* the expression handed to Interpreter.evaluate_expression
    eval_out,    \* the value it returned and self.errors after the call
    eval_pc,     \* "idle", "start" (before the call) or "returned"
    val_prog,    \* the Program handed to the validators
    val_out,     \* the ValidationVisitor after validate_program(val_prog)
    sem_out,     \* the exception SemanticAnalyzer(val_prog).analyze() raised,
                 \* "" when it returned
    val_pc,      \* which of the two calls have been made
    exp_prog,    \* the Program whose components expand_macros expands
    exp_out,     \* the node list expand_macros returned or the exception
                 \* that left it, self.errors and self.context afterwards
    exp_pc,      \* "idle", "start" (before the call) or "done"
    net_prog,    \* the Program of the Interpreter that writes a netlist
    net_it,      \* that Interpreter: connectivity tables, context, errors
    net_out,     \* the lines generate_netlist returned, or what it raised
    net_pc,      \* "idle", "start" (before the call) or "done"
    lex_text,    \* the source text both lexers are constructed with
    lex_regex,   \* the Lexer of Lexer.py: code left, self.tokens, status
    lex_scan,    \* the Lexer of lexer.py: self.pos, self.tokens, status
    parse_tokens, \* the tokens the Parser is constructed with
    parse_out,   \* what the parse method called returned or raised
    parse_pc     \* "idle", "start" (before the call) or "done"

connVars == <<interp, program, conn_nets>>

flatVars == <<flat_in, flat_subcircuits, flat_out, flat_pc>>

evalVars == <<eval_expr, eval_out, eval_pc>>

validVars == <<val_prog, val_out, sem_out, val_pc>>

expVars == <<exp_prog, exp_out, exp_pc>>

netVars == <<net_prog, net_it, net_out, net_pc>>

\* the variables of the specifications that follow the first four
lexVars == <<lex_text, lex_regex, lex_scan>>

parseVars == <<parse_tokens, parse_out, parse_pc>>

otherVars == <<validVars, expVars, netVars, lexVars, parseVars>>

vars ==
    <<interp, program, conn_nets, flat_in, flat_subcircuits, flat_out, flat_pc,
      compilations,
      eval_expr, eval_out, eval_pc, val_prog, val_out, sem_out, val_pc,
      exp_prog, exp_out, exp_pc, net_prog, net_it, net_out, net_pc,
      lex_text, lex_regex, lex_scan, parse_tokens, parse_out, parse_pc>>

-----------------------------------------------------------------------------
(* Bounds *)

\* words of a source text handed to the lexers
MaxWords == 2

\* tokens between the opening and the closing tokens of a Connect statement
MaxMiddle == 3

\* tokens of the parameter list of a component declaration
MaxParamTokens == 5

\* connections handed to one Interpreter
MaxConns == 3

\* connections of a program whose Interpreter resolves it more than once
MaxRerunConns == 2

\* calls of build_connectivity on one Interpreter
MaxRuns == 2

\* nested calls of flatten_subcircuit_instance, or of expand_node_list, that
\* Python's recursion limit leaves room for
RecursionLimit == 4

\* entries of program.components when templates or macros contain themselves
MaxRecurItems == 1

\* entries of program.components handed to the flattener
MaxItems == 2

\* steps (connections resolved, instances flattened) of one of the two
\* interleaved compilations
MaxSteps == 2

\* nesting depth of the operator applications of an evaluated expression
MaxDepth == 2

\* arguments of an evaluated function call
MaxArgs == 2

-----------------------------------------------------------------------------
(* AST values: endpoints and connections (src/ast_nodes.py) *)

\* None / empty string: a falsy net_name
NoName == ""

\* ast_nodes.Terminal(component_name, terminal_name)
Terminal(c, t) ==
    [kind |-> "Terminal", name |-> c, terminal_name |-> t, is_ground |-> FALSE]

\* ast_nodes.Node(name, is_ground)
Node(n, g) ==
    [kind |-> "Node", name |-> n, terminal_name |-> "", is_ground |-> g]

\* a plain Python string endpoint
Str(s) ==
    [kind |-> "str", name |-> s, terminal_name |-> "", is_ground |-> FALSE]

\* ast_nodes.Connection(endpoints, net_name)
Connection(eps, nn) == [endpoints |-> eps, net_name |-> nn]

\* str.lower() on the endpoint spellings and type names used here
Lower(s) ==
    CASE s = "GND"    -> "gnd"
      [] s = "Gnd"    -> "gnd"
      [] s = "GROUND" -> "ground"
      [] s = "Ground" -> "ground"
      [] s = "Resistor" -> "resistor"
      [] s = "Capacitor" -> "capacitor"
      [] s = "Inductor" -> "inductor"
      [] s = "VoltageSource" -> "voltagesource"
      [] s = "CurrentSource" -> "currentsource"
      [] s = "Diode" -> "diode"
      [] s = "Transistor" -> "transistor"
      [] s = "BJT" -> "bjt"
      [] s = "MOSFET" -> "mosfet"
      [] s = "OpAmp" -> "opamp"
      [] s = "Ammeter" -> "ammeter"
      [] s = "R" -> "r"
      [] s = "V" -> "v"
      [] s = "X" -> "x"
      [] OTHER        -> s

\* the literal list ['ground', 'gnd', '0'] of build_connectivity
GroundWords == {"ground", "gnd", "0"}

-----------------------------------------------------------------------------
(* What the parser makes of one endpoint of Connect(...) *)

\* lexer.TOKEN_SPECIFICATION: only the exact word "ground" is a GROUND token,
\* a word starting with a digit is a NUMBER, every other word an IDENTIFIER
TokenTypeOf(word) ==
    IF word = "ground" THEN "GROUND"
    ELSE IF word = "0" THEN "NUMBER"
    ELSE "IDENTIFIER"

\* Parser.parse_connection, one undotted endpoint word; "ParserError" when
\* the token is neither GROUND nor IDENTIFIER
ParseEndpoint(word) ==
    IF TokenTypeOf(word) = "GROUND" THEN Node("ground", TRUE)
    ELSE IF TokenTypeOf(word) = "IDENTIFIER" THEN Node(word, FALSE)
    ELSE [kind |-> "ParserError", name |-> word, terminal_name |-> "",
          is_ground |-> FALSE]

-----------------------------------------------------------------------------
(* Interpreter: construction and build_connectivity *)

\* NetlistNode(id, name, is_ground)
NetlistNode(i, n, g) == [id |-> i, name |-> n, is_ground |-> g]

\* reference to the ground NetlistNode object made by __init__
GroundRef == 0

\* variant of InterpreterInit: the counter starts at 0
InterpreterInit_CounterZero ==
    [ node_counter |-> 0,
      nodes |-> [n \in {"ground", "gnd", "0"} |-> 0],
      terminal_connections |-> << >>,
      objs |-> (0 :> NetlistNode(0, "ground", TRUE)) ]

\* Interpreter.__init__: counter 1, the ground object registered under the
\* three ground names, empty terminal table.  objs maps an object reference
\* to the NetlistNode it denotes (object identity is the reference).
InterpreterInit ==
    [ node_counter |-> 1,
      nodes |-> [n \in GroundWords |-> GroundRef],
      terminal_connections |-> << >>,
      objs |-> (GroundRef :> NetlistNode(0, "ground", TRUE)) ]

\* any(...) over conn.endpoints, interpreter.py lines 652-656
IsGroundConnection(conn) ==
    \E i \in DOMAIN conn.endpoints :
        LET ep == conn.endpoints[i] IN
            \/ ep.kind = "str" /\ Lower(ep.name) \in GroundWords
            \/ ep.kind = "Node" /\ ep.is_ground

\* string_endpoints, lines 666-670
StringEndpoints(conn) ==
    SelectSeq(conn.endpoints,
              LAMBDA ep : ep.kind = "str" /\ ep.name \notin GroundWords)

\* the loop of lines 671-675: index of the first registered string endpoint,
\* 0 when there is none
FirstRegistered(st, names) ==
    LET hits == {i \in DOMAIN names : names[i].name \in DOMAIN st.nodes} IN
        IF hits = {} THEN 0
        ELSE CHOOSE i \in hits : \A j \in hits : i <= j

\* variant of FindOrCreate: a new node is made without advancing the counter
FindOrCreate_NoIncrement(st, conn) ==
    IF IsGroundConnection(conn)
    THEN [ref |-> st.nodes["ground"], st |-> st]
    ELSE IF conn.net_name # NoName /\ conn.net_name \in DOMAIN st.nodes
    THEN [ref |-> st.nodes[conn.net_name], st |-> st]
    ELSE LET names == StringEndpoints(conn)
             k == FirstRegistered(st, names)
         IN  IF k # 0
             THEN [ref |-> st.nodes[names[k].name], st |-> st]
             ELSE LET r == Cardinality(DOMAIN st.objs)
                      obj == NetlistNode(st.node_counter, conn.net_name, FALSE)
                      st1 == [st EXCEPT !.objs = @ @@ (r :> obj)]
                  IN  [ref |-> r,
                       st |-> IF conn.net_name # NoName
                              THEN [st1 EXCEPT !.nodes =
                                        (conn.net_name :> r) @@ @]
                              ELSE st1]

\* lines 658-684: the target node of a connection and the interpreter state
\* after the lookup / allocation.  Result: [ref, st].
FindOrCreate(st, conn) ==
    IF IsGroundConnection(conn)
    THEN [ref |-> st.nodes["ground"], st |-> st]
    ELSE IF conn.net_name # NoName /\ conn.net_name \in DOMAIN st.nodes
    THEN [ref |-> st.nodes[conn.net_name], st |-> st]
    ELSE LET names == StringEndpoints(conn)
             k == FirstRegistered(st, names)
         IN  IF k # 0
             THEN [ref |-> st.nodes[names[k].name], st |-> st]
             ELSE LET r == Cardinality(DOMAIN st.objs)
                      obj == NetlistNode(st.node_counter, conn.net_name, FALSE)
                      st1 == [st EXCEPT !.objs = @ @@ (r :> obj),
                                        !.node_counter = @ + 1]
                  IN  [ref |-> r,
                       st |-> IF conn.net_name # NoName
                              THEN [st1 EXCEPT !.nodes =
                                        (conn.net_name :> r) @@ @]
                              ELSE st1]

\* variant of BindTerminal: an existing binding is kept
BindTerminal_FirstWins(tc, ep, ref) ==
    IF ep.name \notin DOMAIN tc
    THEN tc @@ (ep.name :> (ep.terminal_name :> ref))
    ELSE [tc EXCEPT ![ep.name] = @ @@ (ep.terminal_name :> ref)]

\* lines 690-694: terminal_connections[component][terminal] = target_node
BindTerminal(tc, ep, ref) ==
    IF ep.name \notin DOMAIN tc
    THEN tc @@ (ep.name :> (ep.terminal_name :> ref))
    ELSE [tc EXCEPT ![ep.name] = (ep.terminal_name :> ref) @@ @]

\* lines 687-697: connect the endpoints eps[i..] to the target node
RECURSIVE ConnectEndpoints(_, _, _, _)
ConnectEndpoints(st, eps, i, ref) ==
    IF i > Len(eps) THEN st
    ELSE LET ep == eps[i]
             st1 == IF ep.kind = "Terminal"
                    THEN [st EXCEPT !.terminal_connections =
                                        BindTerminal(@, ep, ref)]
                    ELSE IF ep.kind = "str" /\ ep.name \notin GroundWords
                    THEN [st EXCEPT !.nodes = (ep.name :> ref) @@ @]
                    ELSE st
         IN  ConnectEndpoints(st1, eps, i + 1, ref)

\* variant of ConnectivityStep: a connection joins the net of a terminal
\* endpoint that is already bound (union through terminals)
ConnectivityStep_TerminalUnify(st, conn) ==
    LET bound == {i \in DOMAIN conn.endpoints :
                    /\ conn.endpoints[i].kind = "Terminal"
                    /\ conn.endpoints[i].name \in DOMAIN st.terminal_connections
                    /\ conn.endpoints[i].terminal_name \in
                         DOMAIN st.terminal_connections[conn.endpoints[i].name]}
        found == FindOrCreate(st, conn)
    IN  IF bound # {} /\ ~IsGroundConnection(conn)
        THEN LET t == conn.endpoints[CHOOSE i \in bound : TRUE]
                 r == st.terminal_connections[t.name][t.terminal_name]
             IN  [ref |-> r, st |-> ConnectEndpoints(st, conn.endpoints, 1, r)]
        ELSE [ref |-> found.ref,
              st |-> ConnectEndpoints(found.st, conn.endpoints, 1, found.ref)]

\* one iteration of the for loop of build_connectivity (lines 647-697)
ConnectivityStep(st, conn) ==
    LET found == FindOrCreate(st, conn) IN
        [ref |-> found.ref,
         st |-> ConnectEndpoints(found.st, conn.endpoints, 1, found.ref)]

\* build_connectivity over the connections conns[i..]
RECURSIVE BuildConnectivity(_, _, _)
BuildConnectivity(st, conns, i) ==
    IF i > Len(conns) THEN st
    ELSE BuildConnectivity(ConnectivityStep(st, conns[i]).st, conns, i + 1)

\* id of the net an object reference denotes
IdOf(st, ref) == st.objs[ref].id

-----------------------------------------------------------------------------
(* Python values the evaluator computes with *)

RECURSIVE Gcd(_, _)
Gcd(a, b) == IF b = 0 THEN a ELSE Gcd(b, a % b)

AbsInt(n) == IF n < 0 THEN -n ELSE n

\* a Python int, bool or float with an exact value n/d (d > 0, lowest terms);
\* f says the value is a float.  True and False are the ints 1 and 0.
Rat(n, d, f) ==
    LET g == Gcd(AbsInt(n), AbsInt(d))
        sg == IF d < 0 THEN -1 ELSE 1
    IN  [t |-> "num", n |-> sg * (n \div g), d |-> sg * (d \div g), f |-> f]

PyInt(n) == Rat(n, 1, FALSE)
PyFloat(n) == Rat(n, 1, TRUE)
PyBool(b) == IF b THEN PyInt(1) ELSE PyInt(0)

Inf == [t |-> "inf"]        \* float('inf')
NegInf == [t |-> "-inf"]    \* float('-inf')
NaN == [t |-> "nan"]        \* float('nan')
NoneV == [t |-> "none"]     \* None
StrV(x) == [t |-> "str", s |-> x]
ListV(xs) == [t |-> "list", items |-> xs]

\* a float or complex result whose digits are not computed here (sin(2.0),
\* 2.0 ** 0.5, (-1) ** 0.5); the evaluated expressions never use one as an
\* operand
Untracked == [t |-> "untracked"]

IsNumber(v) == v.t \in {"num", "inf", "-inf", "nan"}
IsPyInt(v) == v.t = "num" /\ ~v.f
IsInfinite(v) == v.t \in {"inf", "-inf"}

\* v == 0
IsZero(v) == v.t = "num" /\ v.n = 0

\* bool(v)
Truthy(v) ==
    CASE v.t = "num"  -> v.n # 0
      [] v.t = "str"  -> v.s # ""
      [] v.t = "list" -> Len(v.items) > 0
      [] v.t = "none" -> FALSE
      [] OTHER        -> TRUE

\* sign of a number that is not nan
Sign(v) ==
    CASE v.t = "inf"  -> 1
      [] v.t = "-inf" -> -1
      [] OTHER        -> IF v.n > 0 THEN 1 ELSE IF v.n < 0 THEN -1 ELSE 0

Signed(sg) == IF sg < 0 THEN NegInf ELSE Inf

\* outcome of a Python operation: a value, or an exception raised
Ok(v) == [exc |-> "", v |-> v]
Raise(e) == [exc |-> e, v |-> NoneV]

NumNeg(a) ==
    CASE a.t = "nan"  -> NaN
      [] a.t = "inf"  -> NegInf
      [] a.t = "-inf" -> Inf
      [] OTHER        -> Rat(-a.n, a.d, a.f)

NumAdd(a, b) ==
    IF a.t = "nan" \/ b.t = "nan" THEN NaN
    ELSE IF IsInfinite(a) THEN (IF IsInfinite(b) /\ a # b THEN NaN ELSE a)
    ELSE IF IsInfinite(b) THEN b
    ELSE Rat(a.n * b.d + b.n * a.d, a.d * b.d, a.f \/ b.f)

NumMul(a, b) ==
    IF a.t = "nan" \/ b.t = "nan" THEN NaN
    ELSE IF IsInfinite(a) \/ IsInfinite(b)
    THEN (IF Sign(a) * Sign(b) = 0 THEN NaN ELSE Signed(Sign(a) * Sign(b)))
    ELSE Rat(a.n * b.n, a.d * b.d, a.f \/ b.f)

\* a / b as Python computes it (true division)
NumDiv(a, b) ==
    IF IsZero(b) THEN Raise("ZeroDivisionError")
    ELSE IF a.t = "nan" \/ b.t = "nan" THEN Ok(NaN)
    ELSE IF IsInfinite(a)
    THEN (IF IsInfinite(b) THEN Ok(NaN) ELSE Ok(Signed(Sign(a) * Sign(b))))
    ELSE IF IsInfinite(b) THEN Ok(PyFloat(0))
    ELSE Ok(Rat(a.n * b.d, a.d * b.n, TRUE))

RECURSIVE IntPow(_, _)
IntPow(n, k) == IF k = 0 THEN 1 ELSE n * IntPow(n, k - 1)

\* |a| compared with 1, for a finite number: -1, 0 or 1
MagnitudeVsOne(a) ==
    IF AbsInt(a.n) > a.d THEN 1 ELSE IF AbsInt(a.n) = a.d THEN 0 ELSE -1

\* a ** b for numbers
NumPow(a, b) ==
    IF b.t = "num" /\ b.n = 0 THEN Ok(Rat(1, 1, ~IsPyInt(a) \/ b.f))
    ELSE IF a.t = "num" /\ a.n = a.d THEN Ok(Rat(1, 1, a.f \/ ~IsPyInt(b)))
    ELSE IF a.t = "nan" \/ b.t = "nan" THEN Ok(NaN)
    ELSE IF b.t = "inf"
    THEN (IF IsInfinite(a) THEN Ok(Inf)
          ELSE IF MagnitudeVsOne(a) > 0 THEN Ok(Inf)
          ELSE IF MagnitudeVsOne(a) = 0 THEN Ok(PyFloat(1))
          ELSE Ok(PyFloat(0)))
    ELSE IF b.t = "-inf"
    THEN (IF IsInfinite(a) THEN Ok(PyFloat(0))
          ELSE IF MagnitudeVsOne(a) > 0 THEN Ok(PyFloat(0))
          ELSE IF MagnitudeVsOne(a) = 0 THEN Ok(PyFloat(1))
          ELSE Ok(Inf))
    ELSE IF IsInfinite(a)
    THEN (IF b.n < 0 THEN Ok(PyFloat(0))
          ELSE IF a.t = "-inf" /\ b.d = 1 /\ b.n % 2 = 1 THEN Ok(NegInf)
          ELSE Ok(Inf))
    ELSE IF a.n = 0
    THEN (IF b.n < 0 THEN Raise("ZeroDivisionError")
          ELSE Ok(Rat(0, 1, a.f \/ b.f)))
    ELSE IF b.d = 1
    THEN (IF b.n > 0
          THEN Ok(Rat(IntPow(a.n, b.n), IntPow(a.d, b.n), a.f \/ b.f))
          ELSE Ok(Rat(IntPow(a.d, -b.n), IntPow(a.n, -b.n), TRUE)))
    ELSE Ok(Untracked)

\* a < b for numbers (False when either is nan)
NumLess(a, b) ==
    IF a.t = "nan" \/ b.t = "nan" THEN FALSE
    ELSE IF a.t = "-inf" THEN b.t # "-inf"
    ELSE IF a.t = "inf" THEN FALSE
    ELSE IF b.t = "inf" THEN TRUE
    ELSE IF b.t = "-inf" THEN FALSE
    ELSE a.n * b.d < b.n * a.d

\* a == b
PyEq(a, b) ==
    IF IsNumber(a) /\ IsNumber(b)
    THEN (IF a.t = "nan" \/ b.t = "nan" THEN FALSE
          ELSE IF a.t = "num" /\ b.t = "num" THEN a.n = b.n /\ a.d = b.d
          ELSE a.t = b.t)
    ELSE a = b

\* a < b.  Every string of the input sets is a power of one letter, so the
\* lexicographic order of strings is the order of their lengths.
PyLess(a, b) ==
    IF IsNumber(a) /\ IsNumber(b) THEN Ok(PyBool(NumLess(a, b)))
    ELSE IF a.t = "str" /\ b.t = "str" THEN Ok(PyBool(Len(a.s) < Len(b.s)))
    ELSE IF a.t = "list" /\ b.t = "list" THEN Ok(Untracked)
    ELSE IF a.t = "untracked" \/ b.t = "untracked" THEN Ok(Untracked)
    ELSE Raise("TypeError")

RECURSIVE StrRepeat(_, _)
StrRepeat(x, k) == IF k <= 0 THEN "" ELSE x \o StrRepeat(x, k - 1)

RECURSIVE SeqRepeat(_, _)
SeqRepeat(xs, k) == IF k <= 0 THEN << >> ELSE xs \o SeqRepeat(xs, k - 1)

PyAdd(a, b) ==
    IF a.t = "untracked" \/ b.t = "untracked" THEN Ok(Untracked)
    ELSE IF IsNumber(a) /\ IsNumber(b) THEN Ok(NumAdd(a, b))
    ELSE IF a.t = "str" /\ b.t = "str" THEN Ok(StrV(a.s \o b.s))
    ELSE IF a.t = "list" /\ b.t = "list" THEN Ok(ListV(a.items \o b.items))
    ELSE Raise("TypeError")

PySub(a, b) ==
    IF a.t = "untracked" \/ b.t = "untracked" THEN Ok(Untracked)
    ELSE IF IsNumber(a) /\ IsNumber(b) THEN Ok(NumAdd(a, NumNeg(b)))
    ELSE Raise("TypeError")

PyMul(a, b) ==
    IF a.t = "untracked" \/ b.t = "untracked" THEN Ok(Untracked)
    ELSE IF IsNumber(a) /\ IsNumber(b) THEN Ok(NumMul(a, b))
    ELSE IF a.t = "str" /\ IsPyInt(b) THEN Ok(StrV(StrRepeat(a.s, b.n)))
    ELSE IF IsPyInt(a) /\ b.t = "str" THEN Ok(StrV(StrRepeat(b.s, a.n)))
    ELSE IF a.t = "list" /\ IsPyInt(b) THEN Ok(ListV(SeqRepeat(a.items, b.n)))
    ELSE IF IsPyInt(a) /\ b.t = "list" THEN Ok(ListV(SeqRepeat(b.items, a.n)))
    ELSE Raise("TypeError")

PyDiv(a, b) ==
    IF a.t = "untracked" \/ b.t = "untracked" THEN Ok(Untracked)
    ELSE IF IsNumber(a) /\ IsNumber(b) THEN NumDiv(a, b)
    ELSE Raise("TypeError")

PyPow(a, b) ==
    IF a.t = "untracked" \/ b.t = "untracked" THEN Ok(Untracked)
    ELSE IF IsNumber(a) /\ IsNumber(b) THEN NumPow(a, b)
    ELSE Raise("TypeError")

-----------------------------------------------------------------------------
(* Expressions (src/ast_nodes.py) and the evaluator                        *)
(* (src/interpreter.py lines 424-573)                                      *)

\* Literal(value); annotations['si_value'] is present when annotated
Literal(v) == [k |-> "Literal", value |-> v, annotated |-> FALSE, si_value |-> v]
LiteralSI(v, si) ==
    [k |-> "Literal", value |-> v, annotated |-> TRUE, si_value |-> si]
Identifier(n) == [k |-> "Identifier", name |-> n]
BinaryOp(l, o, r) == [k |-> "BinaryOp", left |-> l, op |-> o, right |-> r]
UnaryOp(o, e) == [k |-> "UnaryOp", op |-> o, operand |-> e]
FunctionCall(n, as) == [k |-> "FunctionCall", name |-> n, args |-> as]
ArrayLiteral(es) == [k |-> "ArrayLiteral", elements |-> es]
\* an ExpressionNode of a class evaluate_expression has no branch for
OtherExpression == [k |-> "Other"]

\* what an evaluation leaves: the value returned and self.errors
Evaluated(v, errs) == [v |-> v, errors |-> errs]

\* Interpreter.add_error: the message is appended to self.errors
AddError(errs, message) == Append(errs, message)

\* InterpreterContext.get over the chain of scopes, innermost first;
\* NameError when no scope holds the name
RECURSIVE ContextGet(_, _, _)
ContextGet(context, name, i) ==
    IF i > Len(context) THEN Raise("NameError")
    ELSE IF name \in DOMAIN context[i] THEN Ok(context[i][name])
    ELSE ContextGet(context, name, i + 1)

\* the try body of _apply_binary_op for a known operator other than '/'
\* with a zero divisor: the Python operation and its outcome
BinaryOutcome(op, left, right) ==
    CASE op = "+" -> PyAdd(left, right)
      [] op = "-" -> PySub(left, right)
      [] op = "*" -> PyMul(left, right)
      [] op = "/" -> PyDiv(left, right)
      [] op \in {"**", "^"} -> PyPow(left, right)
      [] op = "||" ->
            IF IsZero(left) \/ IsZero(right) THEN Ok(PyInt(0))
            ELSE LET prod == PyMul(left, right)
                     sum == PyAdd(left, right)
                 IN  IF prod.exc # "" THEN prod
                     ELSE IF sum.exc # "" THEN sum
                     ELSE PyDiv(prod.v, sum.v)
      [] op = "&&" -> Ok(IF Truthy(left) THEN right ELSE left)
      [] op = "==" -> Ok(PyBool(PyEq(left, right)))
      [] op = "!=" -> Ok(PyBool(~PyEq(left, right)))
      [] op = "<"  -> PyLess(left, right)
      [] op = ">"  -> PyLess(right, left)
      [] op = "<=" ->
            LET lt == PyLess(left, right) IN
                IF lt.exc # "" \/ lt.v = Untracked THEN lt
                ELSE Ok(PyBool(Truthy(lt.v) \/ PyEq(left, right)))
      [] op = ">=" ->
            LET gt == PyLess(right, left) IN
                IF gt.exc # "" \/ gt.v = Untracked THEN gt
                ELSE Ok(PyBool(Truthy(gt.v) \/ PyEq(left, right)))

BinaryOperators ==
    {"+", "-", "*", "/", "**", "^", "||", "&&", "==", "!=", "<", ">", "<=", ">="}

\* variant of ApplyBinaryOp: no zero test before dividing, so Python's own
\* ZeroDivisionError reaches the except clause
ApplyBinaryOp_NoZeroTest(op, left, right, errs) ==
    IF op \notin BinaryOperators
    THEN Evaluated(PyInt(0), AddError(errs, "Unknown binary operator"))
    ELSE LET out == BinaryOutcome(op, left, right) IN
            IF out.exc # ""
            THEN Evaluated(PyInt(0), AddError(errs, "Error in binary operation"))
            ELSE Evaluated(out.v, errs)

\* Interpreter._apply_binary_op (lines 475-514)
ApplyBinaryOp(op, left, right, errs) ==
    IF op = "/" /\ IsZero(right)
    THEN Evaluated(Inf, AddError(errs, "Division by zero"))
    ELSE IF op \notin BinaryOperators
    THEN Evaluated(PyInt(0), AddError(errs, "Unknown binary operator"))
    ELSE LET out == BinaryOutcome(op, left, right) IN
            IF out.exc # ""
            THEN Evaluated(PyInt(0), AddError(errs, "Error in binary operation"))
            ELSE Evaluated(out.v, errs)

UnaryOperators == {"-", "+", "!", "sqrt", "abs"}

\* the try body of _apply_unary_op for a known operator
UnaryOutcome(op, operand) ==
    CASE op = "-" ->
            IF operand.t = "untracked" THEN Ok(Untracked)
            ELSE IF IsNumber(operand) THEN Ok(NumNeg(operand))
            ELSE Raise("TypeError")
      [] op = "+" ->
            IF IsNumber(operand) \/ operand.t = "untracked" THEN Ok(operand)
            ELSE Raise("TypeError")
      [] op = "!" -> Ok(PyBool(~Truthy(operand)))
      [] op = "sqrt" -> PyPow(operand, Rat(1, 2, TRUE))
      [] op = "abs" ->
            IF operand.t = "untracked" THEN Ok(Untracked)
            ELSE IF operand.t \in {"inf", "-inf"} THEN Ok(Inf)
            ELSE IF operand.t = "nan" THEN Ok(NaN)
            ELSE IF operand.t = "num"
            THEN Ok(Rat(AbsInt(operand.n), operand.d, operand.f))
            ELSE Raise("TypeError")

\* Interpreter._apply_unary_op (lines 516-534)
ApplyUnaryOp(op, operand, errs) ==
    IF op \notin UnaryOperators
    THEN Evaluated(operand, AddError(errs, "Unknown unary operator"))
    ELSE LET out == UnaryOutcome(op, operand) IN
            IF out.exc # ""
            THEN Evaluated(operand, AddError(errs, "Error in unary operation"))
            ELSE Evaluated(out.v, errs)

\* float(x) as the math functions apply it to their argument
ToFloat(v) ==
    IF IsNumber(v) THEN Ok(v) ELSE Raise("TypeError")

\* math.sin, cos, tan, log, log10, exp, sqrt on one argument
MathOutcome(name, x) ==
    IF x.t = "untracked" THEN Ok(Untracked)
    ELSE IF ~IsNumber(x) THEN Raise("TypeError")
    ELSE IF x.t = "nan" THEN Ok(NaN)
    ELSE CASE name \in {"sin", "tan"} ->
                IF IsInfinite(x) THEN Raise("ValueError")
                ELSE IF IsZero(x) THEN Ok(PyFloat(0)) ELSE Ok(Untracked)
           [] name = "cos" ->
                IF IsInfinite(x) THEN Raise("ValueError")
                ELSE IF IsZero(x) THEN Ok(PyFloat(1)) ELSE Ok(Untracked)
           [] name \in {"log", "log10"} ->
                IF x.t = "inf" THEN Ok(Inf)
                ELSE IF Sign(x) <= 0 THEN Raise("ValueError")
                ELSE IF x.n = x.d THEN Ok(PyFloat(0)) ELSE Ok(Untracked)
           [] name = "exp" ->
                IF x.t = "inf" THEN Ok(Inf)
                ELSE IF x.t = "-inf" THEN Ok(PyFloat(0))
                ELSE IF IsZero(x) THEN Ok(PyFloat(1)) ELSE Ok(Untracked)
           [] name = "sqrt" ->
                IF x.t = "inf" THEN Ok(Inf)
                ELSE IF Sign(x) < 0 THEN Raise("ValueError")
                ELSE IF IsZero(x) THEN Ok(PyFloat(0))
                ELSE IF x.n = x.d THEN Ok(PyFloat(1)) ELSE Ok(Untracked)

\* min(args) / max(args): least (greatest when greatest is TRUE) of a list
RECURSIVE Extreme(_, _, _, _)
Extreme(args, greatest, best, i) ==
    IF i > Len(args) THEN Ok(best)
    ELSE LET cmp == IF greatest THEN PyLess(best, args[i])
                    ELSE PyLess(args[i], best)
         IN  IF cmp.exc # "" THEN cmp
             ELSE IF cmp.v = Untracked THEN Ok(Untracked)
             ELSE Extreme(args, greatest,
                          IF Truthy(cmp.v) THEN args[i] ELSE best, i + 1)

\* int(x)
ToInt(v) ==
    CASE v.t = "num" ->
            Ok(IF v.n >= 0 THEN v.n \div v.d ELSE -((-v.n) \div v.d))
      [] v.t \in {"inf", "-inf"} -> Raise("OverflowError")
      [] v.t = "nan" -> Raise("ValueError")
      [] v.t = "str" -> Raise("ValueError")
      [] OTHER -> Raise("TypeError")

\* list(range(start, stop, step)) for step # 0
RECURSIVE RangeItems(_, _, _)
RangeItems(start, stop, step) ==
    IF (step > 0 /\ start >= stop) \/ (step < 0 /\ start <= stop) THEN << >>
    ELSE <<PyInt(start)>> \o RangeItems(start + step, stop, step)

\* the range branch of _call_function; other argument counts fall through
\* all three tests and the function returns None
RangeOutcome(args) ==
    IF Len(args) \notin {1, 2, 3} THEN Ok(NoneV)
    ELSE LET ints == [i \in DOMAIN args |-> ToInt(args[i])]
             bad == {i \in DOMAIN args : ints[i].exc # ""}
         IN  IF bad # {}
             THEN Raise(ints[CHOOSE i \in bad : \A j \in bad : i <= j].exc)
             ELSE IF Len(args) = 1 THEN Ok(ListV(RangeItems(0, ints[1].v, 1)))
             ELSE IF Len(args) = 2
             THEN Ok(ListV(RangeItems(ints[1].v, ints[2].v, 1)))
             ELSE IF ints[3].v = 0 THEN Raise("ValueError")
             ELSE Ok(ListV(RangeItems(ints[1].v, ints[2].v, ints[3].v)))

Builtins ==
    {"sin", "cos", "tan", "log", "log10", "exp", "sqrt", "abs", "min", "max",
     "range"}

\* the try body of _call_function for a builtin name
CallOutcome(name, args) ==
    CASE name \in {"sin", "cos", "tan", "log", "log10", "exp", "sqrt"} ->
            IF Len(args) = 0 THEN Raise("IndexError")
            ELSE MathOutcome(name, args[1])
      [] name = "abs" ->
            IF Len(args) = 0 THEN Raise("IndexError")
            ELSE UnaryOutcome("abs", args[1])
      [] name \in {"min", "max"} ->
            IF Len(args) = 0 THEN Raise("ValueError")
            ELSE Extreme(args, name = "max", args[1], 2)
      [] name = "range" -> RangeOutcome(args)

\* Interpreter._call_function (lines 536-573)
CallFunction(name, args, errs) ==
    IF name \notin Builtins
    THEN Evaluated(PyInt(0), AddError(errs, "Unknown function"))
    ELSE LET out == CallOutcome(name, args) IN
            IF out.exc # ""
            THEN Evaluated(PyInt(0), AddError(errs, "Error calling function"))
            ELSE Evaluated(out.v, errs)

RECURSIVE EvaluateExpression(_, _, _)
RECURSIVE EvaluateAll(_, _, _, _)

\* [self.evaluate_expression(e) for e in exprs[i..]]: the values, in order,
\* and the errors accumulated
EvaluateAll(exprs, context, errs, i) ==
    IF i > Len(exprs) THEN [vs |-> << >>, errors |-> errs]
    ELSE LET first == EvaluateExpression(exprs[i], context, errs)
             rest == EvaluateAll(exprs, context, first.errors, i + 1)
         IN  [vs |-> <<first.v>> \o rest.vs, errors |-> rest.errors]

\* Interpreter.evaluate_expression (lines 440-473)
EvaluateExpression(expr, context, errs) ==
    CASE expr.k = "Literal" ->
            Evaluated(IF expr.annotated THEN expr.si_value ELSE expr.value, errs)
      [] expr.k = "Identifier" ->
            LET got == ContextGet(context, expr.name, 1) IN
                IF got.exc # ""
                THEN Evaluated(PyInt(0), AddError(errs, "Undefined identifier"))
                ELSE Evaluated(got.v, errs)
      [] expr.k = "BinaryOp" ->
            LET left == EvaluateExpression(expr.left, context, errs)
                right == EvaluateExpression(expr.right, context, left.errors)
            IN  ApplyBinaryOp(expr.op, left.v, right.v, right.errors)
      [] expr.k = "UnaryOp" ->
            LET operand == EvaluateExpression(expr.operand, context, errs)
            IN  ApplyUnaryOp(expr.op, operand.v, operand.errors)
      [] expr.k = "FunctionCall" ->
            LET args == EvaluateAll(expr.args, context, errs, 1)
            IN  CallFunction(expr.name, args.vs, args.errors)
      [] expr.k = "ArrayLiteral" ->
            LET elems == EvaluateAll(expr.elements, context, errs, 1)
            IN  Evaluated(ListV(elems.vs), elems.errors)
      [] OTHER ->
            Evaluated(PyInt(0), AddError(errs, "Unknown expression type"))

-----------------------------------------------------------------------------
(* SubcircuitFlattener (src/interpreter.py lines 316-406) *)

\* port_connections of an instance without port bindings
NoPorts == [form |-> "list", keys |-> << >>, values |-> << >>]

\* port_connections given as a positional list of targets
PortList(targets) == [form |-> "list", keys |-> << >>, values |-> targets]

\* port_connections as the parser builds it: a dict keyed by port name
PortDict(ks, targets) == [form |-> "dict", keys |-> ks, values |-> targets]

\* ast_nodes.ComponentDeclaration(type_name, instance_name)
ComponentDeclaration(ty, n) ==
    [kind |-> "ComponentDeclaration", type_name |-> ty, instance_name |-> n,
     port_connections |-> NoPorts]

\* ast_nodes.SubcircuitInstance(subcircuit_name, instance_name, port_connections)
SubcircuitInstance(ty, n, pc) ==
    [kind |-> "SubcircuitInstance", type_name |-> ty, instance_name |-> n,
     port_connections |-> pc]

\* ast_nodes.Subcircuit(name, ports, components, connections), ports by name
Subcircuit(n, ps, comps, conns) ==
    [name |-> n, ports |-> ps, components |-> comps, connections |-> conns]

\* len(instance.port_connections)
PortConnLen(pc) == Len(pc.values)

\* lines 361-366: port_mapping over ports[i..] (i is 1-based here, the code's
\* enumerate index is i - 1); a dict keyed by port names has no key i - 1
RECURSIVE PortMapping(_, _, _, _)
PortMapping(ports, pc, prefix, i) ==
    IF i > Len(ports) THEN << >>
    ELSE LET target == IF i - 1 < PortConnLen(pc)
                       THEN pc.values[i]
                       ELSE prefix \o "UNCONNECTED_" \o ToString(i - 1)
         IN  PortMapping(ports, pc, prefix, i + 1) @@ (ports[i] :> target)

\* instance.port_connections[i] raises KeyError: a name-keyed dict is indexed
\* by position as soon as one port has i < len(port_connections)
PortMappingRaises(ports, pc) ==
    pc.form = "dict" /\ Len(ports) >= 1 /\ PortConnLen(pc) >= 1

\* lines 385-404: the renamed copy of one template connection
FlattenConnection(conn, port_mapping, prefix) ==
    [endpoints |->
        [i \in DOMAIN conn.endpoints |->
            LET ep == conn.endpoints[i] IN
                IF ep.kind = "Terminal"
                THEN [ep EXCEPT !.name = prefix \o ep.name]
                ELSE IF ep.kind = "str" /\ ep.name \in DOMAIN port_mapping
                THEN [ep EXCEPT !.name = port_mapping[ep.name]]
                ELSE IF ep.kind = "str" /\ ep.name \notin {"ground", "gnd", "0"}
                THEN [ep EXCEPT !.name = prefix \o ep.name]
                ELSE ep],
     net_name |->
        IF conn.net_name # NoName /\ conn.net_name \in DOMAIN port_mapping
        THEN port_mapping[conn.net_name]
        ELSE IF conn.net_name # NoName THEN prefix \o conn.net_name
        ELSE conn.net_name]

\* result of a flattening call: the lists it returns, the instance counter
\* afterwards, and whether an exception left the call
FlatResult(comps, conns, counter, raised) ==
    [components |-> comps, connections |-> conns,
     instance_counter |-> counter, raised |-> raised,
     exc |-> IF raised THEN "KeyError" ELSE ""]

\* the call is left by the exception that left the nested call r
Propagated(r) == [r EXCEPT !.components = << >>, !.connections = << >>]

\* variant of RecursionError: a depth guard ends the recursion and the call
\* returns nothing
RecursionError_Guarded(counter) == FlatResult(<< >>, << >>, counter, FALSE)

\* the call of flatten_subcircuit_instance cannot be entered: Python's
\* recursion limit is reached
RecursionError(counter) ==
    [FlatResult(<< >>, << >>, counter, TRUE) EXCEPT !.exc = "RecursionError"]

RECURSIVE FlattenInstanceAt(_, _, _, _)
RECURSIVE FlattenComponents(_, _, _, _, _, _)

\* lines 369-380: the loop over subckt.components from index i on, run by
\* the call of flatten_subcircuit_instance that is number frames on the
\* stack; nested instances are flattened recursively and only their
\* components are kept
FlattenComponents(subcircuits, comps, prefix, counter, i, frames) ==
    IF i > Len(comps) THEN FlatResult(<< >>, << >>, counter, FALSE)
    ELSE LET new_comp == [comps[i] EXCEPT
                             !.instance_name = prefix \o comps[i].instance_name]
         IN  IF new_comp.kind = "SubcircuitInstance"
             THEN LET nested == FlattenInstanceAt(subcircuits, new_comp,
                                                  counter, frames)
                  IN  IF nested.raised THEN Propagated(nested)
                      ELSE LET rest == FlattenComponents(subcircuits, comps,
                                          prefix, nested.instance_counter,
                                          i + 1, frames)
                           IN  IF rest.raised THEN Propagated(rest)
                               ELSE FlatResult(
                                      nested.components \o rest.components,
                                      << >>, rest.instance_counter, FALSE)
             ELSE LET rest == FlattenComponents(subcircuits, comps, prefix,
                                                counter, i + 1, frames)
                  IN  IF rest.raised THEN Propagated(rest)
                      ELSE FlatResult(<<new_comp>> \o rest.components, << >>,
                                      rest.instance_counter, FALSE)

\* SubcircuitFlattener.flatten_subcircuit_instance (lines 349-406) called
\* with frames calls of it on the stack already; the call is not entered
\* when the recursion limit is reached
FlattenInstanceAt(subcircuits, instance, counter, frames) ==
    IF frames >= RecursionLimit THEN RecursionError(counter)
    ELSE IF instance.type_name \notin DOMAIN subcircuits
    THEN FlatResult(<< >>, << >>, counter, FALSE)
    ELSE LET subckt == subcircuits[instance.type_name]
             prefix == instance.instance_name \o "_"
         IN  IF PortMappingRaises(subckt.ports, instance.port_connections)
             THEN FlatResult(<< >>, << >>, counter + 1, TRUE)
             ELSE LET port_mapping == PortMapping(subckt.ports,
                                          instance.port_connections, prefix, 1)
                      flat == FlattenComponents(subcircuits, subckt.components,
                                                prefix, counter + 1, 1,
                                                frames + 1)
                  IN  IF flat.raised THEN Propagated(flat)
                      ELSE FlatResult(
                             flat.components,
                             [k \in DOMAIN subckt.connections |->
                                 FlattenConnection(subckt.connections[k],
                                                   port_mapping, prefix)],
                             flat.instance_counter, FALSE)

\* flatten_subcircuit_instance called from outside the flattener
FlattenSubcircuitInstance(subcircuits, instance, counter) ==
    FlattenInstanceAt(subcircuits, instance, counter, 0)

\* lines 328-335: the loop of flatten_program over program.components[i..]
RECURSIVE FlattenProgramLoop(_, _, _, _)
FlattenProgramLoop(subcircuits, comps, counter, i) ==
    IF i > Len(comps) THEN FlatResult(<< >>, << >>, counter, FALSE)
    ELSE IF comps[i].kind = "SubcircuitInstance"
    THEN LET one == FlattenSubcircuitInstance(subcircuits, comps[i], counter)
         IN  IF one.raised THEN Propagated(one)
             ELSE LET rest == FlattenProgramLoop(subcircuits, comps,
                                                 one.instance_counter, i + 1)
                  IN  IF rest.raised THEN Propagated(rest)
                      ELSE FlatResult(one.components \o rest.components,
                                      one.connections \o rest.connections,
                                      rest.instance_counter, FALSE)
    ELSE LET rest == FlattenProgramLoop(subcircuits, comps, counter, i + 1)
         IN  IF rest.raised THEN Propagated(rest)
             ELSE FlatResult(<<comps[i]>> \o rest.components,
                             rest.connections, rest.instance_counter, FALSE)

\* variant of FlattenProgram: the program's own connections are not appended
FlattenProgram_DropConnections(subcircuits, prog, counter) ==
    FlattenProgramLoop(subcircuits, prog.components, counter, 1)

\* SubcircuitFlattener.flatten_program (lines 323-347): the flattened
\* connections followed by the program's own connections
FlattenProgram(subcircuits, prog, counter) ==
    LET loop == FlattenProgramLoop(subcircuits, prog.components, counter, 1) IN
        IF loop.raised THEN loop
        ELSE [loop EXCEPT !.connections = @ \o prog.connections]

\* variant of DeepCopy: the "copy" is the object itself
DeepCopy_SameObject(obj) == [value |-> obj, same_object |-> TRUE]

\* copy.deepcopy(obj) (lines 370, 385 and 395): a new object that equals obj
\* and shares nothing with it
DeepCopy(obj) == [value |-> obj, same_object |-> FALSE]

\* the object a copy was made of, once the copy's attributes were assigned
\* so that the copy equals written
OriginalAfterWrite(copy, written) ==
    IF copy.same_object THEN written ELSE copy.value

\* self.subcircuits while a flattening call runs, and whether an exception
\* has left the call
Templates(table, raised) == [table |-> table, raised |-> raised]

RECURSIVE SubcircuitsAfterInstance(_, _, _)
RECURSIVE SubcircuitsAfterComponents(_, _, _, _, _)

\* lines 370-371 for component i of template name: new_comp is the copy and
\* new_comp.instance_name is assigned
RenamedComponent(t, name, prefix, i, new_comp) ==
    [t EXCEPT !.table[name].components[i] =
        OriginalAfterWrite(new_comp,
            [new_comp.value EXCEPT !.instance_name = prefix \o @])]

\* lines 374-376 for component i of template name, whose copy was renamed
AfterNested(t, name, i, renamed, frames) ==
    IF renamed.kind = "SubcircuitInstance"
    THEN SubcircuitsAfterInstance(t, renamed, frames)
    ELSE t

\* lines 369-380: the templates after the loop over the components i.. of
\* template name
SubcircuitsAfterComponents(t, name, prefix, i, frames) ==
    IF t.raised \/ i > Len(t.table[name].components) THEN t
    ELSE SubcircuitsAfterComponents(
             AfterNested(
                 RenamedComponent(t, name, prefix, i,
                                  DeepCopy(t.table[name].components[i])),
                 name, i,
                 [t.table[name].components[i] EXCEPT
                     !.instance_name = prefix \o @],
                 frames),
             name, prefix, i + 1, frames)

\* lines 384-404: the templates after the loop over the connections k.. of
\* template name, every write going to new_conn
RECURSIVE SubcircuitsAfterConnections(_, _, _, _, _)
SubcircuitsAfterConnections(t, name, port_mapping, prefix, k) ==
    IF t.raised \/ k > Len(t.table[name].connections) THEN t
    ELSE SubcircuitsAfterConnections(
             [t EXCEPT !.table[name].connections[k] =
                 OriginalAfterWrite(DeepCopy(@),
                     FlattenConnection(@, port_mapping, prefix))],
             name, port_mapping, prefix, k + 1)

\* self.subcircuits after flatten_subcircuit_instance (lines 349-406),
\* called with frames calls of it on the stack
SubcircuitsAfterInstance(t, instance, frames) ==
    IF t.raised \/ instance.type_name \notin DOMAIN t.table THEN t
    ELSE IF \/ frames >= RecursionLimit
            \/ PortMappingRaises(t.table[instance.type_name].ports,
                                 instance.port_connections)
    THEN Templates(t.table, TRUE)
    ELSE SubcircuitsAfterConnections(
             SubcircuitsAfterComponents(t, instance.type_name,
                                        instance.instance_name \o "_", 1,
                                        frames + 1),
             instance.type_name,
             PortMapping(t.table[instance.type_name].ports,
                         instance.port_connections,
                         instance.instance_name \o "_", 1),
             instance.instance_name \o "_", 1)

\* self.subcircuits after the loop of flatten_program (lines 328-335) over
\* program.components[i..]
RECURSIVE SubcircuitsAfterProgram(_, _, _)
SubcircuitsAfterProgram(t, comps, i) ==
    IF t.raised \/ i > Len(comps) THEN t
    ELSE SubcircuitsAfterProgram(
             IF comps[i].kind = "SubcircuitInstance"
             THEN SubcircuitsAfterInstance(t, comps[i], 0)
             ELSE t,
             comps, i + 1)

-----------------------------------------------------------------------------
(* Programs handed to validation (src/ast_nodes.py)                        *)

\* ast_nodes.Literal(value, unit)
UnitLiteral(v, u) == [k |-> "Literal", value |-> v, unit |-> u]

\* ast_nodes.ComponentDeclaration with its parameters and terminals;
\* named_params lists the dict's (name, value) pairs in insertion order
DeclaredComponent(ty, n, pos, named, terms) ==
    [kind |-> "ComponentDeclaration", type_name |-> ty, instance_name |-> n,
     positional_params |-> pos, named_params |-> named, terminals |-> terms]

\* ast_nodes.MacroDefinition(name, parameters, body)
MacroDefinition(n, params, body) ==
    [name |-> n, parameters |-> params, body |-> body]

\* ast_nodes.Subcircuit with the lists validation walks
SubcircuitDef(n, comps, conns, inner) ==
    [name |-> n, components |-> comps, connections |-> conns,
     inner_subcircuits |-> inner]

\* ast_nodes.DCAnalysis() and ast_nodes.TransientAnalysis(step_time, stop_time)
DCAnalysis == [kind |-> "DCAnalysis", step_time |-> 0, stop_time |-> 0]
TransientAnalysis(step, stop) ==
    [kind |-> "TransientAnalysis", step_time |-> step, stop_time |-> stop]

\* ast_nodes.AnalysisBlock(name, simulations, plots)
AnalysisBlock(n, sims) == [name |-> n, simulations |-> sims]

\* ast_nodes.Program
Program(vars_, macros, subckts, comps, conns, analyses) ==
    [variables |-> vars_, macros |-> macros, subcircuits |-> subckts,
     components |-> comps, connections |-> conns, analyses |-> analyses]

IsConnection(node) == "endpoints" \in DOMAIN node
IsComponentDeclaration(node) ==
    "kind" \in DOMAIN node /\ node.kind = "ComponentDeclaration"
IsSubcircuitInstance(node) ==
    "kind" \in DOMAIN node /\ node.kind = "SubcircuitInstance"

-----------------------------------------------------------------------------
(* ValidationVisitor (src/interpreter.py lines 163-314)                    *)

\* ValidationVisitor.__init__; raised names an exception that left a method
ValidationVisitorInit ==
    [errors |-> << >>, warnings |-> << >>, component_names |-> {},
     net_names |-> {}, macro_names |-> {}, subcircuit_names |-> {},
     variables |-> {}, raised |-> ""]

\* ValidationVisitor.add_error / add_warning for a node without location
VAddError(vv, message) == [vv EXCEPT !.errors = Append(@, message)]
VAddWarning(vv, message) ==
    [vv EXCEPT !.warnings = Append(@, "Warning: " \o message)]

RECURSIVE ValidateExpression(_, _)
RECURSIVE ValidateExpressions(_, _, _)

\* validate_expression over exprs[i..], in order
ValidateExpressions(vv, exprs, i) ==
    IF i > Len(exprs) THEN vv
    ELSE ValidateExpressions(ValidateExpression(vv, exprs[i]), exprs, i + 1)

\* ValidationVisitor.validate_expression (lines 297-314)
ValidateExpression(vv, expr) ==
    CASE expr.k = "Identifier" ->
            IF expr.name \notin vv.variables
            THEN VAddError(vv, "Undefined variable: " \o expr.name)
            ELSE vv
      [] expr.k = "BinaryOp" ->
            ValidateExpression(ValidateExpression(vv, expr.left), expr.right)
      [] expr.k = "UnaryOp" -> ValidateExpression(vv, expr.operand)
      [] expr.k = "FunctionCall" -> ValidateExpressions(vv, expr.args, 1)
      [] expr.k = "ArrayLiteral" -> ValidateExpressions(vv, expr.elements, 1)
      [] OTHER -> vv

\* the values of named_params, in order
ParamValues(named) == [i \in DOMAIN named |-> named[i][2]]

\* ValidationVisitor.validate_component (lines 227-243); a SubcircuitInstance
\* has no positional_params attribute
ValidateComponent(vv, comp) ==
    IF vv.raised # "" THEN vv
    ELSE LET dup == IF comp.instance_name \in vv.component_names
                    THEN VAddError(vv, "Duplicate component name: "
                                        \o comp.instance_name)
                    ELSE vv
             added == [dup EXCEPT !.component_names = @ \cup {comp.instance_name}]
         IN  IF IsSubcircuitInstance(comp)
             THEN [(IF comp.type_name \notin added.subcircuit_names
                    THEN VAddError(added, "Undefined subcircuit type: "
                                            \o comp.type_name)
                    ELSE added) EXCEPT !.raised = "AttributeError"]
             ELSE ValidateExpressions(
                    ValidateExpressions(added, comp.positional_params, 1),
                    ParamValues(comp.named_params), 1)

\* lines 250-257 over endpoints[i..]: a Terminal of an unknown component
\* is warned about
RECURSIVE ValidateEndpoints(_, _, _)
ValidateEndpoints(vv, eps, i) ==
    IF i > Len(eps) THEN vv
    ELSE ValidateEndpoints(
            IF eps[i].kind = "Terminal" /\ eps[i].name \notin vv.component_names
            THEN VAddWarning(vv, "Connection references undefined component: "
                                    \o eps[i].name)
            ELSE vv,
            eps, i + 1)

\* ValidationVisitor.validate_connection (lines 245-257)
ValidateConnection(vv, conn) ==
    IF vv.raised # "" THEN vv
    ELSE ValidateEndpoints(
            IF conn.net_name # NoName
            THEN [vv EXCEPT !.net_names = @ \cup {conn.net_name}] ELSE vv,
            conn.endpoints, 1)

RECURSIVE ValidateComponents(_, _, _)
ValidateComponents(vv, comps, i) ==
    IF i > Len(comps) THEN vv
    ELSE ValidateComponents(ValidateComponent(vv, comps[i]), comps, i + 1)

RECURSIVE ValidateConnections(_, _, _)
ValidateConnections(vv, conns, i) ==
    IF i > Len(conns) THEN vv
    ELSE ValidateConnections(ValidateConnection(vv, conns[i]), conns, i + 1)

\* the loop of validate_macro over body[i..]
RECURSIVE ValidateBody(_, _, _)
ValidateBody(vv, body, i) ==
    IF i > Len(body) THEN vv
    ELSE ValidateBody(
            IF IsComponentDeclaration(body[i]) THEN ValidateComponent(vv, body[i])
            ELSE IF IsConnection(body[i]) THEN ValidateConnection(vv, body[i])
            ELSE vv,
            body, i + 1)

\* ValidationVisitor.validate_macro (lines 259-271): the component names are
\* restored unless an exception left the method
ValidateMacro(vv, macro) ==
    IF vv.raised # "" THEN vv
    ELSE LET after == ValidateBody(vv, macro.body, 1) IN
            IF after.raised # "" THEN after
            ELSE [after EXCEPT !.component_names = vv.component_names]

RECURSIVE ValidateSubcircuit(_, _)
RECURSIVE ValidateSubcircuits(_, _, _)

ValidateSubcircuits(vv, subckts, i) ==
    IF i > Len(subckts) THEN vv
    ELSE ValidateSubcircuits(ValidateSubcircuit(vv, subckts[i]), subckts, i + 1)

\* ValidationVisitor.validate_subcircuit (lines 273-290)
ValidateSubcircuit(vv, subckt) ==
    IF vv.raised # "" THEN vv
    ELSE LET after ==
                ValidateSubcircuits(
                    ValidateConnections(
                        ValidateComponents(vv, subckt.components, 1),
                        subckt.connections, 1),
                    subckt.inner_subcircuits, 1)
         IN  IF after.raised # "" THEN after
             ELSE [after EXCEPT !.component_names = vv.component_names,
                                !.net_names = vv.net_names]

RECURSIVE ValidateMacros(_, _, _)
ValidateMacros(vv, macros, i) ==
    IF i > Len(macros) THEN vv
    ELSE ValidateMacros(ValidateMacro(vv, macros[i]), macros, i + 1)

\* ValidationVisitor.validate_analysis (lines 292-295) over analyses[i..]:
\* validate_simulation is not defined by the class
RECURSIVE ValidateAnalyses(_, _, _)
ValidateAnalyses(vv, analyses, i) ==
    IF i > Len(analyses) \/ vv.raised # "" THEN vv
    ELSE ValidateAnalyses(
            IF Len(analyses[i].simulations) > 0
            THEN [vv EXCEPT !.raised = "AttributeError"] ELSE vv,
            analyses, i + 1)

\* first pass of validate_program over a list of named definitions: a name
\* seen before is an error, every name is collected
RECURSIVE CollectNames(_, _, _, _, _)
CollectNames(vv, items, field, what, i) ==
    IF i > Len(items) THEN vv
    ELSE LET n == items[i].name
             dup == IF n \in vv[field]
                    THEN VAddError(vv, "Duplicate " \o what \o " definition: " \o n)
                    ELSE vv
         IN  CollectNames([dup EXCEPT ![field] = @ \cup {n}], items, field,
                          what, i + 1)

\* ValidationVisitor.validate_program (lines 191-225): the visitor after the
\* call; the call returns len(errors) == 0 unless raised is set
ValidateProgram(prog) ==
    LET pass1 ==
            CollectNames(
                CollectNames(
                    CollectNames(ValidationVisitorInit, prog.variables,
                                 "variables", "variable", 1),
                    prog.macros, "macro_names", "macro", 1),
                prog.subcircuits, "subcircuit_names", "subcircuit", 1)
    IN  ValidateAnalyses(
            ValidateSubcircuits(
                ValidateMacros(
                    ValidateConnections(
                        ValidateComponents(pass1, prog.components, 1),
                        prog.connections, 1),
                    prog.macros, 1),
                prog.subcircuits, 1),
            prog.analyses, 1)

\* what validate_program returns
Verdict(vv) == Len(vv.errors) = 0

-----------------------------------------------------------------------------
(* SemanticAnalyzer (src/semantic.py)                                      *)

\* valid_types of _check_component
ValidTypes ==
    {"Resistor", "Capacitor", "Inductor", "VoltageSource", "CurrentSource",
     "ACSource", "Ammeter"}

\* the keys of self.valid_units
ValidUnitKeys == {"V", "A", "ohm", "F", "H", "Hz"}

\* self.required_params
RequiredParams(ty) ==
    CASE ty = "ACSource" -> <<"frequency", "amplitude">>
      [] ty \in {"VoltageSource", "CurrentSource"} -> <<"value">>
      [] ty = "Resistor" -> <<"resistance">>
      [] ty = "Capacitor" -> <<"capacitance">>
      [] ty = "Inductor" -> <<"inductance">>
      [] OTHER -> << >>

SemanticError(message) == Raise("SemanticError: " \o message)

\* the keys of named_params
ParamNames(named) == {named[i][1] : i \in DOMAIN named}

\* the first required parameter that named_params lacks, "" when none
FirstMissing(required, named) ==
    LET missing == {i \in DOMAIN required : required[i] \notin ParamNames(named)}
    IN  IF missing = {} THEN ""
        ELSE required[CHOOSE i \in missing : \A j \in missing : i <= j]

\* SemanticAnalyzer._check_component (lines 56-94).  The name Literal of
\* line 74 is typing.Literal, which isinstance rejects with TypeError; the
\* test of line 87 looks a type name up among the unit names.
CheckComponent(comp) ==
    IF comp.type_name \notin ValidTypes
    THEN SemanticError("Invalid component type: " \o comp.type_name)
    ELSE IF IsSubcircuitInstance(comp) THEN Raise("AttributeError")
    ELSE IF FirstMissing(RequiredParams(comp.type_name), comp.named_params) # ""
    THEN SemanticError("Missing required parameter '"
            \o FirstMissing(RequiredParams(comp.type_name), comp.named_params)
            \o "' for " \o comp.type_name \o " " \o comp.instance_name)
    ELSE IF Len(comp.named_params) > 0 THEN Raise("TypeError")
    ELSE IF comp.type_name \notin ValidUnitKeys
    THEN SemanticError("Invalid component type: " \o comp.type_name)
    ELSE Ok(NoneV)

\* the first pass of analyze over components[i..]; declared maps the names
\* stored so far to their components
RECURSIVE CollectComponents(_, _, _)
CollectComponents(comps, declared, i) ==
    IF i > Len(comps) THEN [exc |-> "", v |-> declared]
    ELSE LET checked == CheckComponent(comps[i]) IN
            IF checked.exc # "" THEN checked
            ELSE IF comps[i].instance_name \in DOMAIN declared
            THEN SemanticError("Component '" \o comps[i].instance_name
                                \o "' is already defined")
            ELSE CollectComponents(
                    comps,
                    [n \in DOMAIN declared \cup {comps[i].instance_name} |->
                        IF n = comps[i].instance_name THEN comps[i]
                        ELSE declared[n]],
                    i + 1)

\* the endpoints _check_connection looks at: plain strings other than ground
CheckedEndpoints(conn) ==
    {i \in DOMAIN conn.endpoints :
        conn.endpoints[i].kind = "str" /\ Lower(conn.endpoints[i].name) # "ground"}

HasPolarTerminal(comp) ==
    \E i \in DOMAIN comp.terminals : comp.terminals[i] \in {"positive", "negative"}

\* SemanticAnalyzer._check_connection (lines 96-108)
CheckConnection(conn, declared) ==
    LET checked == CheckedEndpoints(conn)
        undefined == {i \in checked : conn.endpoints[i].name \notin DOMAIN declared}
        invalid == {i \in checked :
                        ~HasPolarTerminal(declared[conn.endpoints[i].name])}
        First(S) == CHOOSE i \in S : \A j \in S : i <= j
    IN  IF undefined # {}
        THEN SemanticError("Undefined component: "
                            \o conn.endpoints[First(undefined)].name)
        ELSE IF invalid # {}
        THEN SemanticError("Invalid terminal for component "
                            \o conn.endpoints[First(invalid)].name)
        ELSE Ok(NoneV)

RECURSIVE CheckConnections(_, _, _)
CheckConnections(conns, declared, i) ==
    IF i > Len(conns) THEN Ok(NoneV)
    ELSE LET checked == CheckConnection(conns[i], declared) IN
            IF checked.exc # "" THEN checked
            ELSE CheckConnections(conns, declared, i + 1)

\* SemanticAnalyzer._check_simulation on one simulation command
\* (lines 116-134)
CheckSimulation(sim) ==
    IF sim.kind = "TransientAnalysis" /\ sim.step_time <= 0
    THEN SemanticError("Step time must be positive")
    ELSE IF sim.kind = "TransientAnalysis" /\ sim.stop_time <= 0
    THEN SemanticError("Stop time must be positive")
    ELSE Ok(NoneV)

\* _check_simulation on the commands sims[i..] of an AnalysisBlock
RECURSIVE CheckSimulations(_, _)
CheckSimulations(sims, i) ==
    IF i > Len(sims) THEN Ok(NoneV)
    ELSE LET checked == CheckSimulation(sims[i]) IN
            IF checked.exc # "" THEN checked ELSE CheckSimulations(sims, i + 1)

RECURSIVE CheckAnalyses(_, _)
CheckAnalyses(analyses, i) ==
    IF i > Len(analyses) THEN Ok(NoneV)
    ELSE LET checked == CheckSimulations(analyses[i].simulations, 1) IN
            IF checked.exc # "" THEN checked ELSE CheckAnalyses(analyses, i + 1)

\* SemanticAnalyzer.analyze (lines 35-54): the exception raised, "" when
\* the call returns
Analyze(prog) ==
    LET collected == CollectComponents(prog.components, << >>, 1) IN
        IF collected.exc # "" THEN collected.exc
        ELSE LET conns == CheckConnections(prog.connections, collected.v, 1) IN
            IF conns.exc # "" THEN conns.exc
            ELSE LET sims == CheckAnalyses(prog.analyses, 1) IN
                IF sims.exc # "" THEN sims.exc
                ELSE IF Len(prog.analyses) = 0
                THEN SemanticError("Circuit must include a simulation command").exc
                ELSE ""

-----------------------------------------------------------------------------
(* Interpreter.expand_macros (src/interpreter.py lines 581-642) *)

\* ast_nodes.MacroInvocation(name, arguments)
MacroInvocation(n, args) ==
    [kind |-> "MacroInvocation", name |-> n, arguments |-> args]

\* ast_nodes.ForLoop(variable, iterable, body)
ForLoop(v, iterable, body) ==
    [kind |-> "ForLoop", variable |-> v, iterable |-> iterable, body |-> body]

IsMacroInvocation(node) == node.kind = "MacroInvocation"
IsForLoop(node) == node.kind = "ForLoop"

\* what an expansion leaves: the nodes produced, self.errors, the name of
\* the exception that left it ("" when it returned) and self.context
Expanded(nodes, errs, context) ==
    [result |-> nodes, errors |-> errs, raised |-> "", context |-> context]

\* the call of expand_node_list cannot be entered: Python's recursion limit
\* is reached while context is the current environment
ExpandRaised(errs, context) ==
    [result |-> << >>, errors |-> errs, raised |-> "RecursionError",
     context |-> context]

\* line 586: {macro.name: macro for macro in self.program.macros}; a later
\* definition of a name replaces an earlier one
RECURSIVE MacroDefs(_, _)
MacroDefs(macros, i) ==
    IF i = 0 THEN << >>
    ELSE (macros[i].name :> macros[i]) @@ MacroDefs(macros, i - 1)

\* the arguments zip(parameters, arguments) pairs with a parameter
ZippedArguments(params, args) ==
    SubSeq(args, 1, IF Len(params) < Len(args) THEN Len(params) ELSE Len(args))

\* the macro's own scope: parameter k bound to the k-th value, a repeated
\* parameter name keeping the last value
RECURSIVE MacroScope(_, _, _)
MacroScope(params, values, k) ==
    IF k = 0 THEN << >>
    ELSE (params[k] :> values[k]) @@ MacroScope(params, values, k - 1)

\* result.extend(expanded) after nodes; an exception in expanded leaves the
\* call as it is
Prepend(nodes, expanded) ==
    IF expanded.raised # "" THEN expanded
    ELSE [expanded EXCEPT !.result = nodes \o @]

\* lines 607-611 and 625-628: the body was expanded; self.context = old_context
\* is reached only when the expansion returned
Restored(expanded_body, old_context) ==
    IF expanded_body.raised # "" THEN expanded_body
    ELSE [expanded_body EXCEPT !.context = old_context]

RECURSIVE ExpandNodeList(_, _, _, _, _, _)
RECURSIVE ExpandLoop(_, _, _, _, _, _, _)

\* lines 618-628, the rest of the loop over values[j..] once the body has
\* been expanded for values[j]
ExpandLoopRest(node, values, macro_defs, context, j, frames, expanded_body) ==
    IF expanded_body.raised # "" THEN expanded_body
    ELSE Prepend(expanded_body.result,
                 ExpandLoop(node, values, macro_defs, context,
                            expanded_body.errors, j + 1, frames))

\* lines 618-628: the body expanded once per value, each in a scope of its
\* own that binds the loop variable
ExpandLoop(node, values, macro_defs, context, errs, j, frames) ==
    IF j > Len(values) THEN Expanded(<< >>, errs, context)
    ELSE ExpandLoopRest(node, values, macro_defs, context, j, frames,
             Restored(ExpandNodeList(node.body, macro_defs,
                                     <<(node.variable :> values[j])>> \o context,
                                     errs, 1, frames + 1),
                      context))

\* lines 616-630: a ForLoop whose iterable evaluated to iterable
ExpandForLoop(node, macro_defs, context, iterable, frames) ==
    IF iterable.v.t = "list"
    THEN ExpandLoop(node, iterable.v.items, macro_defs, context,
                    iterable.errors, 1, frames)
    ELSE Expanded(<< >>, AddError(iterable.errors,
                                  "For loop iterable must be a list"),
                  context)

\* lines 593-611: the body of macro_def expanded in a scope that binds the
\* parameters to the evaluated arguments
ExpandInvocation(macro_def, macro_defs, context, arguments, frames) ==
    Restored(ExpandNodeList(macro_def.body, macro_defs,
                            <<MacroScope(macro_def.parameters, arguments.vs,
                                         Len(arguments.vs))>> \o context,
                            arguments.errors, 1, frames + 1),
             context)

\* one iteration of the loop of expand_node_list (lines 590-632)
ExpandNode(node, macro_defs, context, errs, frames) ==
    IF IsMacroInvocation(node)
    THEN IF node.name \in DOMAIN macro_defs
         THEN ExpandInvocation(macro_defs[node.name], macro_defs, context,
                  EvaluateAll(ZippedArguments(macro_defs[node.name].parameters,
                                              node.arguments),
                              context, errs, 1),
                  frames)
         ELSE Expanded(<< >>, AddError(errs, "Undefined macro: " \o node.name),
                       context)
    ELSE IF IsForLoop(node)
    THEN ExpandForLoop(node, macro_defs, context,
                       EvaluateExpression(node.iterable, context, errs), frames)
    ELSE Expanded(<<node>>, errs, context)

\* the nodes after nodes[i], expanded once nodes[i] has been
ExpandRest(nodes, macro_defs, context, i, frames, first) ==
    IF first.raised # "" THEN first
    ELSE Prepend(first.result,
                 ExpandNodeList(nodes, macro_defs, context, first.errors,
                                i + 1, frames))

\* expand_node_list (lines 588-633) over nodes[i..] in the environment
\* context, the call being number frames on the stack; it is not entered
\* when the recursion limit is reached
ExpandNodeList(nodes, macro_defs, context, errs, i, frames) ==
    IF frames > RecursionLimit THEN ExpandRaised(errs, context)
    ELSE IF i > Len(nodes) THEN Expanded(<< >>, errs, context)
    ELSE ExpandRest(nodes, macro_defs, context, i, frames,
                    ExpandNode(nodes[i], macro_defs, context, errs, frames))

\* lines 636-639: a copy of program.components from which every
\* MacroInvocation is removed (list.remove once per invocation in the list)
RECURSIVE WithoutInvocations(_, _)
WithoutInvocations(components, i) ==
    IF i > Len(components) THEN << >>
    ELSE (IF IsMacroInvocation(components[i]) THEN << >> ELSE <<components[i]>>)
            \o WithoutInvocations(components, i + 1)

\* Interpreter.expand_macros with self.context = context
ExpandMacros(prog, context, errs) ==
    LET macro_defs == MacroDefs(prog.macros, Len(prog.macros))
        all_components == WithoutInvocations(prog.components, 1)
    IN  ExpandNodeList(all_components, macro_defs, context, errs, 1, 1)
-----------------------------------------------------------------------------
(* Interpreter.format_component and Interpreter.generate_netlist           *)
(* (src/interpreter.py lines 575-579 and 699-877)                          *)

\* ast_nodes.VariableDeclaration(name, value)
VariableDeclaration(n, e) == [name |-> n, value |-> e]

\* ast_nodes.Program as the Interpreter reads it; components holds
\* ComponentDeclarations, loops and macro invocations, subcircuit_instances
\* holds SubcircuitInstances
CircuitProgram(vars_, macros, comps, insts, conns) ==
    [variables |-> vars_, macros |-> macros, components |-> comps,
     subcircuit_instances |-> insts, connections |-> conns]

\* Interpreter(program) right after __init__: the connectivity tables, the
\* global InterpreterContext({}) and the empty self.errors
NewInterpreter ==
    [st |-> InterpreterInit, context |-> << << >> >>, errors |-> << >>]

\* digits of the fraction r/d after the decimal point, at most k of them
RECURSIVE FractionDigits(_, _, _)
FractionDigits(r, d, k) ==
    IF r = 0 \/ k = 0 THEN ""
    ELSE ToString((r * 10) \div d) \o FractionDigits((r * 10) % d, d, k - 1)

\* str(value) for the values parameters evaluate to here: ints, floats
\* whose decimal expansion ends within four places (100.0, 2.5), strings,
\* None, inf and nan
PyStr(v) ==
    CASE v.t = "num" /\ ~v.f -> ToString(v.n)
      [] v.t = "num" /\ v.f ->
            (IF v.n < 0 THEN "-" ELSE "")
                \o ToString(AbsInt(v.n) \div v.d) \o "."
                \o (IF v.d = 1 THEN "0"
                    ELSE FractionDigits(AbsInt(v.n) % v.d, v.d, 4))
      [] v.t = "str" -> v.s
      [] v.t = "none" -> "None"
      [] v.t = "inf" -> "inf"
      [] v.t = "-inf" -> "-inf"
      [] v.t = "nan" -> "nan"
      [] OTHER -> "?"

\* NetlistNode.__str__ of the object a reference denotes (lines 42-43)
NodeStr(st, ref) ==
    IF st.objs[ref].is_ground THEN "0" ELSE ToString(st.objs[ref].id)

\* the None a dict.get falls back to in the opamp rule
NoneRef == -1

\* variant of TerminalGet: a terminal bound under none of the keys is on
\* ground, whatever default the caller names
RECURSIVE TerminalGet_GroundDefault(_, _, _, _)
TerminalGet_GroundDefault(terminals, keys, default, i) ==
    IF i > Len(keys) THEN GroundRef
    ELSE IF keys[i] \in DOMAIN terminals THEN terminals[keys[i]]
    ELSE TerminalGet_GroundDefault(terminals, keys, default, i + 1)

\* terminals.get(k1, terminals.get(k2, ... default)) for the keys in order
RECURSIVE TerminalGet(_, _, _, _)
TerminalGet(terminals, keys, default, i) ==
    IF i > Len(keys) THEN default
    ELSE IF keys[i] \in DOMAIN terminals THEN terminals[keys[i]]
    ELSE TerminalGet(terminals, keys, default, i + 1)

\* " ".join(words)
RECURSIVE Join(_, _)
Join(words, i) ==
    IF i > Len(words) THEN ""
    ELSE words[i] \o (IF i < Len(words) THEN " " ELSE "") \o Join(words, i + 1)

\* the expressions of the named parameters, in the dict's order
NamedExpressions(named) == [i \in DOMAIN named |-> named[i][2]]

\* lines 709-712: the string of " name=value" pairs for the values of the
\* named parameters
RECURSIVE NamedParamStr(_, _, _)
NamedParamStr(named, values, i) ==
    IF i > Len(named) THEN ""
    ELSE " " \o named[i][1] \o "=" \o PyStr(values[i])
            \o NamedParamStr(named, values, i + 1)

\* [str(v) for v in values]
PyStrs(values) == [i \in DOMAIN values |-> PyStr(values[i])]

\* outcome of format_component: the line returned or the exception raised,
\* and self.errors afterwards
Formatted(line, errs) == [exc |-> "", line |-> line, errors |-> errs]
FormatRaised(e, errs) == [exc |-> e, line |-> "", errors |-> errs]

\* lines 832-835: terminals.get(str(i+1), ground) for i in range(len(terminals))
GenericTerminalList(st, terminals) ==
    [i \in 1..Cardinality(DOMAIN terminals) |->
        NodeStr(st, TerminalGet(terminals, <<ToString(i)>>, GroundRef, 1))]

\* the two-terminal rule shared by resistors, capacitors and inductors
\* (lines 720-736)
TwoTerminalLine(st, comp, terminals, param_values, default_value, named) ==
    LET n1 == TerminalGet(terminals, <<"1", "positive">>, GroundRef, 1)
        n2 == TerminalGet(terminals, <<"2", "negative">>, GroundRef, 1)
        value == IF Len(param_values) > 0 THEN param_values[1]
                 ELSE default_value
    IN  comp.instance_name \o " " \o NodeStr(st, n1) \o " " \o NodeStr(st, n2)
            \o " " \o value \o named

\* the source rule of lines 738-771; default_value is "1" or "1m"
SourceLine(st, comp, terminals, param_values, default_value, named) ==
    LET n_pos == TerminalGet(terminals, <<"1", "positive">>, GroundRef, 1)
        n_neg == TerminalGet(terminals, <<"2", "negative">>, GroundRef, 1)
        head == comp.instance_name \o " " \o NodeStr(st, n_pos) \o " "
                    \o NodeStr(st, n_neg) \o " DC "
    IN  IF Len(param_values) = 1 THEN head \o param_values[1] \o named
        ELSE IF Len(param_values) >= 2
        THEN head \o param_values[1] \o " AC " \o param_values[2] \o named
        ELSE head \o default_value \o named

\* lines 714-844 of format_component: the line for the evaluated positional
\* parameters param_values and the named parameter string named, errs being
\* self.errors after the evaluations
FormatLine(st, comp, param_values, named, errs) ==
    LET terminals == IF comp.instance_name \in DOMAIN st.terminal_connections
                     THEN st.terminal_connections[comp.instance_name]
                     ELSE << >>
        comp_type == Lower(comp.type_name)
        name == comp.instance_name
        model(default) == IF Len(param_values) > 0 THEN param_values[1]
                          ELSE default
    IN  CASE comp_type \in {"r", "resistor"} ->
                Formatted(TwoTerminalLine(st, comp, terminals, param_values,
                                          "1k", named), errs)
          [] comp_type \in {"c", "capacitor"} ->
                Formatted(TwoTerminalLine(st, comp, terminals, param_values,
                                          "1u", named), errs)
          [] comp_type \in {"l", "inductor"} ->
                Formatted(TwoTerminalLine(st, comp, terminals, param_values,
                                          "1m", named), errs)
          [] comp_type \in {"v", "vsource", "voltage_source"} ->
                Formatted(SourceLine(st, comp, terminals, param_values,
                                     "1", named), errs)
          [] comp_type \in {"i", "isource", "current_source"} ->
                Formatted(SourceLine(st, comp, terminals, param_values,
                                     "1m", named), errs)
          [] comp_type \in {"d", "diode"} ->
                LET n_anode == TerminalGet(terminals, <<"1", "anode">>, GroundRef, 1)
                    n_cathode == TerminalGet(terminals, <<"2", "cathode">>, GroundRef, 1)
                IN  Formatted(name \o " " \o NodeStr(st, n_anode) \o " "
                                \o NodeStr(st, n_cathode) \o " "
                                \o model("DIODE_DEFAULT") \o named, errs)
          [] comp_type \in {"q", "bjt", "transistor"} ->
                LET n_c == TerminalGet(terminals, <<"1", "collector">>, GroundRef, 1)
                    n_b == TerminalGet(terminals, <<"2", "base">>, GroundRef, 1)
                    n_e == TerminalGet(terminals, <<"3", "emitter">>, GroundRef, 1)
                    n_s == TerminalGet(terminals, <<"4", "substrate">>, GroundRef, 1)
                    head == name \o " " \o NodeStr(st, n_c) \o " "
                                \o NodeStr(st, n_b) \o " " \o NodeStr(st, n_e)
                IN  IF st.objs[n_s] # st.objs[GroundRef]
                    THEN Formatted(head \o " " \o NodeStr(st, n_s) \o " "
                                    \o model("BJT_DEFAULT") \o named, errs)
                    ELSE Formatted(head \o " " \o model("BJT_DEFAULT") \o named,
                                   errs)
          [] comp_type \in {"m", "mosfet"} ->
                LET n_d == TerminalGet(terminals, <<"1", "drain">>, GroundRef, 1)
                    n_g == TerminalGet(terminals, <<"2", "gate">>, GroundRef, 1)
                    n_s == TerminalGet(terminals, <<"3", "source">>, GroundRef, 1)
                    n_b == TerminalGet(terminals, <<"4", "bulk", "substrate">>, n_s, 1)
                IN  Formatted(name \o " " \o NodeStr(st, n_d) \o " "
                                \o NodeStr(st, n_g) \o " " \o NodeStr(st, n_s)
                                \o " " \o NodeStr(st, n_b) \o " "
                                \o model("MOSFET_DEFAULT") \o named, errs)
          [] comp_type \in {"opamp", "op_amp"} ->
                LET n_plus == TerminalGet(terminals, <<"1", "non_inverting", "+">>,
                                          GroundRef, 1)
                    n_minus == TerminalGet(terminals, <<"2", "inverting", "-">>,
                                           GroundRef, 1)
                    n_out == TerminalGet(terminals, <<"3", "output">>, GroundRef, 1)
                    n_vdd == TerminalGet(terminals, <<"vdd", "vcc", "vpos">>, NoneRef, 1)
                    n_vss == TerminalGet(terminals, <<"vss", "vee", "vneg">>, NoneRef, 1)
                    head == name \o " " \o NodeStr(st, n_plus) \o " "
                                \o NodeStr(st, n_minus) \o " "
                IN  IF n_vdd # NoneRef /\ n_vss # NoneRef
                    THEN Formatted(head \o NodeStr(st, n_vdd) \o " "
                                    \o NodeStr(st, n_vss) \o " "
                                    \o NodeStr(st, n_out) \o " "
                                    \o model("OPAMP_DEFAULT") \o named, errs)
                    ELSE Formatted(head \o NodeStr(st, n_out) \o " "
                                    \o model("OPAMP_DEFAULT") \o named, errs)
          [] comp_type \in {"x", "subcircuit", "subckt"} ->
                IF Len(comp.terminals) > 0
                THEN FormatRaised("'str' object has no attribute 'name'", errs)
                ELSE Formatted(name \o " " \o "" \o " " \o model(comp.type_name)
                                \o named, errs)
          [] OTHER ->
                LET listed == GenericTerminalList(st, terminals)
                    terminal_list == IF Len(listed) = 0 THEN <<"0", "0">>
                                     ELSE listed
                IN  Formatted(name \o " " \o Join(terminal_list, 1) \o " "
                                \o Join(param_values, 1) \o named, errs)

\* lines 702-712 of format_component done: the positional parameters come
\* first among the evaluated values, the named ones after them
FormatEvaluated(st, comp, evaluated) ==
    FormatLine(st, comp,
               PyStrs(SubSeq(evaluated.vs, 1, Len(comp.positional_params))),
               NamedParamStr(comp.named_params,
                             SubSeq(evaluated.vs,
                                    Len(comp.positional_params) + 1,
                                    Len(evaluated.vs)), 1),
               evaluated.errors)

\* Interpreter.format_component (lines 699-844) in the Interpreter state it:
\* the positional parameters are evaluated in order, then the named ones
FormatComponent(it, comp) ==
    IF ~IsComponentDeclaration(comp)
    THEN FormatRaised("'" \o comp.kind
                          \o "' object has no attribute 'positional_params'",
                      it.errors)
    ELSE FormatEvaluated(it.st, comp,
             EvaluateAll(comp.positional_params
                             \o NamedExpressions(comp.named_params),
                         it.context, it.errors, 1))

\* context.set(name, value) and the errors of evaluating value
SetVariable(it, name, value) ==
    [it EXCEPT !.context = <<(name :> value.v) @@ @[1]>>,
               !.errors = value.errors]

\* Interpreter.process_variables (lines 575-579): each declaration's value
\* is evaluated and set in the global context
RECURSIVE ProcessVariables(_, _, _)
ProcessVariables(it, variables, i) ==
    IF i > Len(variables) THEN it
    ELSE ProcessVariables(
             SetVariable(it, variables[i].name,
                 EvaluateExpression(variables[i].value, it.context, it.errors)),
             variables, i + 1)

\* the classes with an instance_name attribute
HasInstanceName(comp) ==
    IsComponentDeclaration(comp) \/ IsSubcircuitInstance(comp)

\* what the loops of generate_netlist leave: the lines appended,
\* self.errors, and the exception that left the loop ("" when none did)
Lines(lines, errs, raised) ==
    [lines |-> lines, errors |-> errs, raised |-> raised]

\* the lines of a loop with the line of f in front, when f has one
WithLine(f, rest) ==
    Lines((IF f.exc = "" /\ f.line # "" THEN <<f.line>> ELSE << >>)
              \o rest.lines,
          rest.errors, rest.raised)

\* self.errors after the handler of lines 865-866 (875 for "subcircuit")
AfterFormat(f, what, comp) ==
    IF f.exc = "" THEN f.errors
    ELSE AddError(f.errors,
             "Error formatting " \o what \o " " \o comp.instance_name
                 \o ": " \o f.exc)

RECURSIVE FormatAll(_, _, _, _)

\* the loop from item i on, f being what format_component did for item i.
\* The handler reads comp.instance_name, so for an item without that
\* attribute the AttributeError leaves generate_netlist.
FormatRest(it, items, ncomps, i, f) ==
    IF f.exc # "" /\ ~HasInstanceName(items[i])
    THEN Lines(<< >>, f.errors,
               "'" \o items[i].kind
                   \o "' object has no attribute 'instance_name'")
    ELSE WithLine(f,
             FormatAll([it EXCEPT !.errors =
                            AfterFormat(f, IF i <= ncomps THEN "component"
                                           ELSE "subcircuit", items[i])],
                       items, ncomps, i + 1))

\* the two loops of generate_netlist (lines 860-866 and 869-875) over
\* items[i..], the program's components followed by its subcircuit
\* instances; the first ncomps items are the components
FormatAll(it, items, ncomps, i) ==
    IF i > Len(items) THEN Lines(<< >>, it.errors, "")
    ELSE FormatRest(it, items, ncomps, i, FormatComponent(it, items[i]))

\* what generate_netlist leaves: the Interpreter afterwards, and the lines
\* returned or the exception that left it
Generated(it, formatted) ==
    [it |-> [it EXCEPT !.errors = formatted.errors],
     lines |-> IF formatted.raised = "" THEN formatted.lines ELSE << >>,
     raised |-> formatted.raised]

\* the items comps[1..k] where comps[k] is the first one format_component
\* raises for, all of comps when there is none
UntilFirstFailure(it, comps) ==
    LET bad == {i \in DOMAIN comps : ~IsComponentDeclaration(comps[i])
                    \/ (Lower(comps[i].type_name) \in {"x", "subcircuit", "subckt"}
                            /\ Len(comps[i].terminals) > 0)}
    IN  IF bad = {} THEN comps
        ELSE SubSeq(comps, 1, CHOOSE i \in bad : \A j \in bad : i <= j)

\* lines 859-877: the components and subcircuit instances are formatted by
\* the Interpreter it, whose connectivity is built
FormatProgram(it, prog) ==
    Generated(it, FormatAll(it, prog.components \o prog.subcircuit_instances,
                            Len(prog.components), 1))

\* lines 853-857: expand_macros, whose result is not used, then
\* build_connectivity
ExpandAndConnect(it, prog, expanded_nodes) ==
    [it EXCEPT !.errors = expanded_nodes.errors,
               !.st = BuildConnectivity(@, prog.connections, 1)]

\* lines 854-877 once expand_macros is done: an exception that left it
\* leaves generate_netlist too; else the connectivity is built and the items
\* of listed are formatted
AfterExpandMacros(it, prog, listed, expanded_nodes) ==
    IF expanded_nodes.raised # ""
    THEN Generated([it EXCEPT !.context = expanded_nodes.context],
                   Lines(<< >>, expanded_nodes.errors, expanded_nodes.raised))
    ELSE FormatProgram(ExpandAndConnect(it, prog, expanded_nodes), listed)

\* generate_netlist after process_variables
AfterVariables(it, prog, listed) ==
    AfterExpandMacros(it, prog, listed,
                      ExpandMacros(prog, it.context, it.errors))

\* variant of GenerateNetlist: a formatting failure ends the loop over the
\* components
GenerateNetlist_StopAtFailure(it, prog) ==
    AfterVariables(ProcessVariables(it, prog.variables, 1), prog,
                   [prog EXCEPT !.components = UntilFirstFailure(it, @)])

\* Interpreter.generate_netlist (lines 846-877)
GenerateNetlist(it, prog) ==
    AfterVariables(ProcessVariables(it, prog.variables, 1), prog, prog)

-----------------------------------------------------------------------------
(* The lexers: Lexer.tokenize of src/Lexer.py (ordered regular expressions) *)
(* and Lexer.tokenize of src/lexer.py (the scanner get_next_token)          *)

LowerCase ==
    {"a", "b", "c", "d", "e", "f", "g", "h", "i", "j", "k", "l", "m",
     "n", "o", "p", "q", "r", "s", "t", "u", "v", "w", "x", "y", "z"}

UpperCase ==
    {"A", "B", "C", "D", "E", "F", "G", "H", "I", "J", "K", "L", "M",
     "N", "O", "P", "Q", "R", "S", "T", "U", "V", "W", "X", "Y", "Z"}

Digits == {"0", "1", "2", "3", "4", "5", "6", "7", "8", "9"}

\* str.isspace() on the characters used here
Whitespace == {" ", "\t", "\n", "\r"}

\* s[i - 1] of Python, "" outside the string
CharAt(s, i) == IF i >= 1 /\ i <= Len(s) THEN SubSeq(s, i, i) ELSE ""

\* Token(type, value)
Token(type, value) == [type |-> type, value |-> value]

\* the value None of the EOF token of Lexer.py
NoneValue == "None"

\* the number of characters of s from position i on that are in class
RECURSIVE SpanLen(_, _, _)
SpanLen(s, class, i) ==
    IF CharAt(s, i) \in class THEN 1 + SpanLen(s, class, i + 1) ELSE 0

\* s.lstrip()
LStrip(s) == SubSeq(s, SpanLen(s, Whitespace, 1) + 1, Len(s))

\* the number of whitespace characters s ends with
RECURSIVE TrailingSpace(_, _)
TrailingSpace(s, i) ==
    IF CharAt(s, i) \in Whitespace THEN 1 + TrailingSpace(s, i - 1) ELSE 0

\* s.strip()
Strip(s) == LStrip(SubSeq(s, 1, Len(s) - TrailingSpace(s, Len(s))))

\* [a-zA-Z_][a-zA-Z0-9_]* at the start of code: the length matched, 0 for
\* no match
IdentifierLen(code) ==
    IF CharAt(code, 1) \in LowerCase \cup UpperCase \cup {"_"}
    THEN 1 + SpanLen(code, LowerCase \cup UpperCase \cup Digits \cup {"_"}, 2)
    ELSE 0

\* (\.\d+)? after the first d characters of code
FractionLen(code, d) ==
    IF CharAt(code, d + 1) = "." /\ SpanLen(code, Digits, d + 2) > 0
    THEN 1 + SpanLen(code, Digits, d + 2)
    ELSE 0

\* \d+ from position q on, for an exponent whose letter is at position p
ExponentDigits(code, p, q) ==
    IF SpanLen(code, Digits, q) > 0
    THEN (q - p) + SpanLen(code, Digits, q)
    ELSE 0

\* ([eE][+-]?\d+)? from position p of code on
ExponentLen(code, p) ==
    IF CharAt(code, p) \in {"e", "E"}
    THEN ExponentDigits(code, p,
                        IF CharAt(code, p + 1) \in {"+", "-"} THEN p + 2
                        ELSE p + 1)
    ELSE 0

\* the match of \d+(\.\d+)?([eE][+-]?\d+)? whose digits and fraction have
\* length m
WithExponent(code, m) == m + ExponentLen(code, m + 1)

\* \d+(\.\d+)?([eE][+-]?\d+)? at the start of code
NumberLen(code) ==
    IF SpanLen(code, Digits, 1) = 0 THEN 0
    ELSE WithExponent(code, SpanLen(code, Digits, 1)
                                + FractionLen(code, SpanLen(code, Digits, 1)))

\* w1|w2|... at the start of code: the first alternative, in order, that
\* code starts with
RECURSIVE AlternativeLen(_, _, _)
AlternativeLen(code, words, k) ==
    IF k > Len(words) THEN 0
    ELSE IF Len(words[k]) <= Len(code) /\ SubSeq(code, 1, Len(words[k])) = words[k]
    THEN Len(words[k])
    ELSE AlternativeLen(code, words, k + 1)

\* Lexer.py lines 19-32: the rules in the order they are tried
TOKEN_REGEX ==
    << [type |-> "IDENTIFIER", form |-> "identifier", words |-> << >>],
       [type |-> "NUMBER", form |-> "number", words |-> << >>],
       [type |-> "COMPONENT", form |-> "words",
        words |-> <<"Resistor", "Capacitor", "Inductor", "VoltageSource",
                    "CurrentSource">>],
       [type |-> "CONNECT", form |-> "words", words |-> <<"Connect">>],
       [type |-> "SUBCIRCUIT", form |-> "words", words |-> <<"Subcircuit">>],
       [type |-> "SIMULATE", form |-> "words", words |-> <<"Simulate">>],
       [type |-> "CONDITIONAL", form |-> "words", words |-> <<"If", "Else">>],
       [type |-> "LOOP", form |-> "words", words |-> <<"For">>],
       [type |-> "UNIT", form |-> "words",
        words |-> <<"ohm", "uF", "mH", "V", "A">>],
       [type |-> "OPERATOR", form |-> "words", words |-> <<"=">>],
       [type |-> "SYMBOL", form |-> "words",
        words |-> <<"(", ")", ";", "{", "}", ",", ".">>],
       [type |-> "KEYWORD", form |-> "words",
        words |-> <<"from", "to", "step", "dc", "transient", "ac">>] >>

\* re.compile('^' + regex).match(code): the length matched, 0 for None
MatchLen(rule, code) ==
    CASE rule.form = "identifier" -> IdentifierLen(code)
      [] rule.form = "number" -> NumberLen(code)
      [] OTHER -> AlternativeLen(code, rule.words, 1)

\* Lexer.py lines 52-59: the first rule from rule k on that matches code,
\* 0 when none does
RECURSIVE FirstMatch(_, _)
FirstMatch(code, k) ==
    IF k > Len(TOKEN_REGEX) THEN 0
    ELSE IF MatchLen(TOKEN_REGEX[k], code) > 0 THEN k
    ELSE FirstMatch(code, k + 1)

\* Lexer.py lines 55-58 for the matching rule k
TokenMatched(lx, k, n) ==
    [lx EXCEPT !.tokens = Append(@, Token(TOKEN_REGEX[k].type,
                                          SubSeq(lx.code, 1, n))),
               !.code = LStrip(SubSeq(@, n + 1, Len(@)))]

\* Lexer.py lines 50-61: one iteration of the while loop, k being the rule
\* that matched
TokenizeRule(lx, k) ==
    IF k = 0 THEN [lx EXCEPT !.status = "SyntaxError"]
    ELSE TokenMatched(lx, k, MatchLen(TOKEN_REGEX[k], lx.code))

\* the Lexer of lexer.py: 0-based self.pos, self.tokens, and how tokenize
\* stands
Scanner(pos, tokens, status) ==
    [pos |-> pos, tokens |-> tokens, status |-> status]

\* lexer.py lines 109-120 and 133-144: the keys of self.component_types and
\* of self.keywords
ComponentTypeKeys ==
    {"VOLTAGE_SOURCE", "CURRENT_SOURCE", "RESISTOR", "CAPACITOR", "INDUCTOR",
     "AC_SOURCE", "DC_SOURCE", "DIODE", "TRANSISTOR", "OPAMP"}
KeywordKeys ==
    {"SUBCIRCUIT", "CONNECT", "SIMULATE", "DC", "AC", "TRANSIENT", "NOISE",
     "MONTE_CARLO", "PARAMETRIC", "PLOT"}

\* lexer.py lines 200-206: the token for the word id() read; keywords[k] is k
WordToken(id_str) ==
    IF id_str \in ComponentTypeKeys \cup KeywordKeys
    THEN Token(id_str, id_str)
    ELSE Token("ID", id_str)

\* lexer.py lines 208-234: the token types of the single characters
CharTokenType(c) ==
    CASE c = "(" -> "LPAREN"
      [] c = ")" -> "RPAREN"
      [] c = "{" -> "LBRACE"
      [] c = "}" -> "RBRACE"
      [] c = ";" -> "SEMICOLON"
      [] c = "," -> "COMMA"
      [] c = "=" -> "EQUALS"
      [] OTHER -> ""

\* the characters of text
CharsOf(text) == {CharAt(text, j) : j \in 1..Len(text)}

\* lines 167-170 of skip_comment: the newline at position e, if there is
\* one, is passed
SkipNewline(text, e) == IF e <= Len(text) THEN e + 1 ELSE e

\* skip_comment (lexer.py lines 164-170): the 1-based position after the
\* comment that starts at position i
AfterComment(text, i) ==
    SkipNewline(text, i + SpanLen(text, CharsOf(text) \ {"\n"}, i))

\* what get_next_token returns: the token or the exception, and the 1-based
\* position afterwards
Scanned(token, i, exc) == [token |-> token, pos |-> i, exc |-> exc]

\* the token of n characters from position i on
ScannedWord(text, i, n, type) ==
    Scanned(IF type = "ID" THEN WordToken(SubSeq(text, i, i + n - 1))
            ELSE Token(type, SubSeq(text, i, i + n - 1)),
            i + n, "")

\* Lexer.get_next_token (lexer.py lines 186-238) with self.pos = i - 1
RECURSIVE GetNextToken(_, _)
GetNextToken(text, i) ==
    CASE i > Len(text) -> Scanned(Token("EOF", ""), i, "")
      [] CharAt(text, i) \in Whitespace ->
            GetNextToken(text, i + SpanLen(text, Whitespace, i))
      [] CharAt(text, i) = "#" -> GetNextToken(text, AfterComment(text, i))
      [] CharAt(text, i) \in Digits ->
            ScannedWord(text, i, SpanLen(text, Digits \cup {"."}, i), "NUMBER")
      [] CharAt(text, i) \in LowerCase \cup UpperCase \cup {"_"} ->
            ScannedWord(text, i,
                SpanLen(text, LowerCase \cup UpperCase \cup Digits
                                  \cup {"_", "."}, i), "ID")
      [] CharTokenType(CharAt(text, i)) # "" ->
            ScannedWord(text, i, 1, CharTokenType(CharAt(text, i)))
      [] OTHER ->
            Scanned(Token("", ""), i, "Invalid character: " \o CharAt(text, i))

\* Lexer.tokenize (lexer.py lines 240-246): one iteration of its loop, got
\* being what get_next_token did
TokenizeNext(sc, got) ==
    IF got.exc # "" THEN Scanner(sc.pos, sc.tokens, "Exception")
    ELSE Scanner(got.pos - 1, Append(sc.tokens, got.token),
                 IF got.token.type = "EOF" THEN "done" ELSE "run")

-----------------------------------------------------------------------------
(* Parser.consume and Parser.parse_connection (src/parser.py) *)

\* consume called without message
NoMessage == ""

\* Parser(tokens): self.tokens, the 0-based self.index, the endpoints
\* parse_connection has collected, and the ParserError raised, if any, with
\* the index of its token
ParserOf(tokens) ==
    [tokens |-> tokens, index |-> 0, endpoints |-> << >>, raised |-> FALSE,
     message |-> "", error_index |-> 0]

\* self.current (lines 41-46): past the end it is Token(EOF, '')
Current(p) ==
    IF p.index < Len(p.tokens) THEN p.tokens[p.index + 1]
    ELSE Token("EOF", "")

\* Parser.peek (lines 48-53)
Peek(p) ==
    IF p.index + 1 < Len(p.tokens) THEN p.tokens[p.index + 2]
    ELSE Token("EOF", "")

\* Parser.advance (lines 41-46)
Advance(p) == [p EXCEPT !.index = @ + 1]

\* raise ParserError(message, self.current)
RaiseParserError(p, message) ==
    [p EXCEPT !.raised = TRUE, !.message = message, !.error_index = p.index]

\* Parser.consume (lines 55-64): the type of the current token alone is
\* compared; the second argument is the text of the error
Consume(p, token_type, message) ==
    IF p.raised THEN p
    ELSE IF Current(p).type = token_type THEN Advance(p)
    ELSE RaiseParserError(p,
             IF message = NoMessage
             THEN "Expected " \o token_type \o ", got " \o Current(p).type
             ELSE message)

\* endpoints.append(endpoint) once the parser p got there without raising
AppendEndpoint(p, endpoint) ==
    IF p.raised THEN p ELSE [p EXCEPT !.endpoints = Append(@, endpoint)]

\* lines 406-410: the three consume calls of a dotted terminal, whose names
\* are the values of the first and third token
ParseTerminal(p) ==
    AppendEndpoint(
        Consume(Consume(Consume(p, "IDENTIFIER", NoMessage), "SYMBOL", "."),
                "IDENTIFIER", NoMessage),
        Terminal(Current(p).value, Current(Advance(Advance(p))).value))

\* lines 400-416: one endpoint
ParseEndpointTokens(p) ==
    CASE Current(p).type = "GROUND" ->
            Advance(AppendEndpoint(p, Node("ground", TRUE)))
      [] Current(p).type = "IDENTIFIER" ->
            IF Peek(p).type = "SYMBOL" /\ Peek(p).value = "."
            THEN ParseTerminal(p)
            ELSE AppendEndpoint(Consume(p, "IDENTIFIER", NoMessage),
                                Node(Current(p).value, FALSE))
      [] OTHER ->
            RaiseParserError(p, "Unexpected endpoint type: '"
                                    \o Current(p).value \o "'")

RECURSIVE ParseEndpoints(_)

\* lines 418-423: after an endpoint a comma continues the loop and a closing
\* parenthesis leaves it
AfterEndpoint(p) ==
    IF p.raised THEN p
    ELSE IF Current(p).type = "SYMBOL" /\ Current(p).value = ","
    THEN ParseEndpoints(Consume(p, "SYMBOL", ","))
    ELSE IF Current(p).type = "SYMBOL" /\ Current(p).value = ")"
    THEN p
    ELSE RaiseParserError(p, "Expected ',' or ')' in connection")

\* lines 399-423: the while loop
ParseEndpoints(p) ==
    IF p.raised \/ (Current(p).type = "SYMBOL" /\ Current(p).value = ")")
    THEN p
    ELSE AfterEndpoint(ParseEndpointTokens(p))

\* what parse_connection leaves: the Connection returned or the ParserError
\* raised, and the parser's index
Parsed(p) ==
    [raised |-> p.raised, message |-> p.message,
     error_index |-> p.error_index, index |-> p.index,
     connection |-> IF p.raised THEN Connection(<< >>, NoName)
                    ELSE Connection(p.endpoints, NoName)]

\* Parser.parse_connection (lines 394-427)
ParseConnection(p) ==
    Parsed(Consume(Consume(
        ParseEndpoints(
            Consume(Consume(p, "CONNECT", NoMessage), "SYMBOL", "(")),
        "SYMBOL", ")"), "SYMBOL", ";"))

-----------------------------------------------------------------------------
(* Parser.parse_component_declaration (src/parser.py lines 316-393) with   *)
(* parse_primary_expression for its parameter values                       *)

\* no expression parsed yet
NoExpression == [k |-> "None"]

\* Parser(tokens) with the two collections of parse_component_declaration,
\* the expression the last call of parse_expression returned and the class
\* of the exception raised, if it is not ParserError
DeclarationParser(tokens) ==
    [tokens |-> tokens, index |-> 0, raised |-> FALSE, message |-> "",
     error_index |-> 0, positional_params |-> << >>, named_params |-> << >>,
     expr |-> NoExpression, exc |-> ""]

\* the AttributeError of TokenType.name for a name the enumeration of
\* src/lexer.py (lines 6-28) does not have
RaiseAttributeError(p, name) ==
    [p EXCEPT !.raised = TRUE, !.exc = "AttributeError", !.message = name,
              !.error_index = p.index]

DigitOf(c) ==
    CASE c = "0" -> 0 [] c = "1" -> 1 [] c = "2" -> 2 [] c = "3" -> 3
      [] c = "4" -> 4 [] c = "5" -> 5 [] c = "6" -> 6 [] c = "7" -> 7
      [] c = "8" -> 8 [] c = "9" -> 9

\* the number the first n digits of text spell
RECURSIVE DecimalValue(_, _)
DecimalValue(text, n) ==
    IF n = 0 THEN 0
    ELSE 10 * DecimalValue(text, n - 1) + DigitOf(CharAt(text, n))

\* float(text) for a text of digits (line 267)
FloatOfDigits(text) == PyFloat(DecimalValue(text, Len(text)))

\* Literal(value, unit) as the parser creates it; unit is None by default
ParsedLiteral(v, unit) == [k |-> "Literal", value |-> v, unit |-> unit]

\* return expr, the parser being p
Returned(p, expr) == IF p.raised THEN p ELSE [p EXCEPT !.expr = expr]

RECURSIVE ParseExpression(_)

\* Parser.parse_primary_expression (lines 263-314); a NUMBER token's value
\* is a text of digits here. The test of line 303 evaluates
\* TokenType.BOOLEAN, which the enumeration does not have, so a token that
\* reaches it leaves the method by AttributeError and the lines after it
\* (the ground reference and the ParserError) are never executed
ParsePrimaryExpression(p) ==
    CASE Current(p).type = "NUMBER" ->
            IF Peek(p).type = "UNIT"
            THEN Returned(Advance(Advance(p)),
                          ParsedLiteral(FloatOfDigits(Current(p).value),
                                        StrV(Peek(p).value)))
            ELSE Returned(Advance(p),
                          ParsedLiteral(FloatOfDigits(Current(p).value), NoneV))
      [] Current(p).type \in {"UNIT", "STRING"} ->
            Returned(Advance(p), ParsedLiteral(StrV(Current(p).value), NoneV))
      [] Current(p).type = "IDENTIFIER" ->
            Returned(Advance(p), Identifier(Current(p).value))
      [] Current(p).type = "SYMBOL" /\ Current(p).value = "(" ->
            Consume(ParseExpression(Advance(p)), "SYMBOL", ")")
      [] OTHER -> RaiseAttributeError(p, "BOOLEAN")

\* Parser.parse_expression (lines 181-261) on tokens without an OPERATOR
\* token: every level calls the next one, no operator loop is entered and
\* the primary expression is returned
ParseExpression(p) == ParsePrimaryExpression(p)

\* named_params[param_name] = param_value on the (name, value) pairs of the
\* dict from position i on
RECURSIVE SetItem(_, _, _, _)
SetItem(pairs, key, value, i) ==
    IF i > Len(pairs) THEN Append(pairs, <<key, value>>)
    ELSE IF pairs[i][1] = key THEN [pairs EXCEPT ![i] = <<key, value>>]
    ELSE SetItem(pairs, key, value, i + 1)

\* line 354, q being the parser after parse_expression
NamedParameter(q, param_name) ==
    IF q.raised THEN q
    ELSE [q EXCEPT !.named_params = SetItem(@, param_name, q.expr, 1)]

\* line 358, q being the parser after parse_expression
PositionalParameter(q) ==
    IF q.raised THEN q
    ELSE [q EXCEPT !.positional_params = Append(@, q.expr)]

\* lines 344-358: one parameter; an IDENTIFIER token starts a named one
ParseParameter(p) ==
    IF Current(p).type = "IDENTIFIER"
    THEN IF Peek(p).type # "SYMBOL" \/ Peek(p).value # "="
         THEN RaiseParserError(Advance(p), "Expected '=' after parameter name")
         ELSE NamedParameter(ParseExpression(Advance(Advance(p))),
                             Current(p).value)
    ELSE PositionalParameter(ParseExpression(p))

RECURSIVE ParseParameters(_)

\* lines 360-367: after a parameter ")" leaves the loop, "," is passed, any
\* other symbol raises, and a token that is no symbol starts the next
\* parameter
AfterParameter(p) ==
    IF p.raised THEN p
    ELSE IF Current(p).type # "SYMBOL" THEN ParseParameters(p)
    ELSE IF Current(p).value = ")" THEN p
    ELSE IF Current(p).value = "," THEN ParseParameters(Advance(p))
    ELSE RaiseParserError(p, "Expected ',' or ')'")

\* lines 343-367: the while loop
ParseParameters(p) ==
    IF p.raised \/ (Current(p).type = "SYMBOL" /\ Current(p).value = ")")
    THEN p
    ELSE AfterParameter(ParseParameter(p))

\* self.advance() once the parser p got there without raising
AdvanceOver(p) == IF p.raised THEN p ELSE Advance(p)

\* lines 339-369: the parameter list, if an opening parenthesis follows the
\* instance name
ParameterList(p) ==
    IF Current(p).type = "SYMBOL" /\ Current(p).value = "("
    THEN AdvanceOver(ParseParameters(Advance(p)))
    ELSE p

\* lines 371-374
Semicolon(p) ==
    IF p.raised THEN p
    ELSE IF Current(p).type # "SYMBOL" \/ Current(p).value # ";"
    THEN RaiseParserError(p, "Expected ';' after component declaration")
    ELSE Advance(p)

\* lines 319-323: the token types of a component type
ComponentTokenTypes ==
    {"RESISTOR", "CAPACITOR", "INDUCTOR", "VOLTAGE_SOURCE", "CURRENT_SOURCE",
     "AC_SOURCE", "AMMETER"}

\* lines 376-383: terminals
DeclarationTerminals(type_name) ==
    IF type_name \in {"VoltageSource", "CurrentSource", "ACSource", "Resistor",
                      "Capacitor", "Inductor", "Ammeter"}
    THEN <<"positive", "negative">>
    ELSE NoneV

\* what parse_component_declaration leaves: the ComponentDeclaration
\* returned or the ParserError raised, and the parser's index
ParsedDeclaration(p, type_name, instance_name) ==
    [raised |-> p.raised, message |-> p.message,
     exc |-> IF ~p.raised THEN ""
             ELSE IF p.exc = "" THEN "ParserError" ELSE p.exc,
     error_index |-> p.error_index, index |-> p.index,
     declaration |->
        IF p.raised THEN DeclaredComponent("", "", << >>, << >>, NoneV)
        ELSE DeclaredComponent(type_name, instance_name, p.positional_params,
                               p.named_params,
                               DeclarationTerminals(type_name))]

\* Parser.parse_component_declaration (lines 316-393)
ParseComponentDeclaration(p) ==
    IF Current(p).type \notin ComponentTokenTypes
    THEN ParsedDeclaration(
             RaiseParserError(p, "Expected component type, got TokenType."
                                     \o Current(p).type), "", "")
    ELSE IF Peek(p).type # "IDENTIFIER"
    THEN ParsedDeclaration(
             RaiseParserError(Advance(p),
                              "Expected component name, got TokenType."
                                  \o Peek(p).type), "", "")
    ELSE ParsedDeclaration(Semicolon(ParameterList(Advance(Advance(p)))),
                           Current(p).value, Peek(p).value)

-----------------------------------------------------------------------------
(* Inputs of the connectivity specification *)

Terminals == {Terminal("R1", "positive"), Terminal("V1", "negative")}

PlainNames == {"a", "b", "c"}

\* ground spellings as plain strings, in several letter cases
GroundSpellings == {"ground", "gnd", "0", "GND"}

\* endpoint words of a source text that the parser accepts
ParsedWords == {"ground", "gnd", "GND", "a"}

ParsedNodes == {ParseEndpoint(w) : w \in ParsedWords}

NetNames == {NoName, "n", "gnd"}

Connections ==
    \* terminal-only connections, with and without an explicit net name
    {Connection(<<t>>, NoName) : t \in Terminals}
    \cup {Connection(<<t1, t2>>, nn) :
            t1 \in {Terminal("R1", "positive")},
            t2 \in {Terminal("V1", "negative")}, nn \in NetNames}
    \* a terminal with a ground spelling, either order
    \cup {Connection(<<Terminal("R1", "positive"), Str(g)>>, NoName) :
            g \in GroundSpellings}
    \cup {Connection(<<Str("a"), Str("gnd")>>, NoName),
          Connection(<<Str("GND"), Terminal("V1", "negative")>>, NoName)}
    \* an explicit net name together with a plain node name
    \cup {Connection(<<Str("a"), Terminal("V1", "negative")>>, "n")}
    \* a terminal with a node the parser produced
    \cup {Connection(<<t, n>>, NoName) : t \in Terminals, n \in ParsedNodes}
    \* a terminal with a plain node name
    \cup {Connection(<<t, Str(x)>>, NoName) : t \in Terminals, x \in {"a", "b"}}
    \* plain node names only
    \cup {Connection(<<Str(p[1]), Str(p[2])>>, NoName) :
            p \in {q \in PlainNames \X PlainNames : q[1] # q[2]}}

-----------------------------------------------------------------------------
(* Connectivity specification: one Interpreter processes connections       *)

\* the flattener is not used
FlatIdle ==
    /\ flat_in = [components |-> << >>, connections |-> << >>]
    /\ flat_subcircuits = << >>
    /\ flat_out = FlatResult(<< >>, << >>, 0, FALSE)
    /\ flat_pc = "idle"

\* no expression is evaluated
EvalIdle ==
    /\ eval_expr = OtherExpression
    /\ eval_out = Evaluated(NoneV, << >>)
    /\ eval_pc = "idle"

\* no Program is validated
ValidIdle ==
    /\ val_prog = Program(<< >>, << >>, << >>, << >>, << >>, << >>)
    /\ val_out = ValidationVisitorInit
    /\ sem_out = ""
    /\ val_pc = [validated |-> FALSE, analyzed |-> FALSE]

\* expand_macros is not called
ExpandIdle ==
    /\ exp_prog = CircuitProgram(<< >>, << >>, << >>, << >>, << >>)
    /\ exp_out = Expanded(<< >>, << >>, NewInterpreter.context)
    /\ exp_pc = "idle"

\* no netlist is generated
NetIdle ==
    /\ net_prog = CircuitProgram(<< >>, << >>, << >>, << >>, << >>)
    /\ net_it = NewInterpreter
    /\ net_out = Generated(NewInterpreter, Lines(<< >>, << >>, ""))
    /\ net_pc = "idle"

\* the specifications that follow the first four are not running
\* no text is tokenized
LexIdle ==
    /\ lex_text = ""
    /\ lex_regex = [code |-> "", tokens |-> << >>, status |-> "idle"]
    /\ lex_scan = Scanner(0, << >>, "idle")

\* no tokens are parsed
ParseIdle ==
    /\ parse_tokens = << >>
    /\ parse_out = Parsed(ParserOf(<< >>))
    /\ parse_pc = "idle"

OtherIdle == ValidIdle /\ ExpandIdle /\ NetIdle /\ LexIdle /\ ParseIdle

\* no Interpreter processes connections
ConnIdle ==
    /\ interp = InterpreterInit
    /\ program = << >>
    /\ conn_nets = << >>

\* Interpreter(program) and SubcircuitFlattener(subcircuits) of one
\* compilation: every field is set on the new instance in __init__
NewCompilation ==
    [interp |-> InterpreterInit, instance_counter |-> 0,
     connections |-> << >>, instances |-> << >>]

Compilations == {1, 2}

\* no interleaved compilations run
IsoIdle == compilations = [k \in Compilations |-> NewCompilation]

ConnInit ==
    /\ interp = InterpreterInit
    /\ program = << >>
    /\ conn_nets = << >>
    /\ FlatIdle
    /\ IsoIdle
    /\ EvalIdle
    /\ OtherIdle

\* the loop body of build_connectivity applied to the next connection
ProcessConnection ==
    /\ Len(program) < MaxConns
    /\ \E conn \in Connections :
        LET r == ConnectivityStep(interp, conn) IN
            /\ interp' = r.st
            /\ program' = Append(program, conn)
            /\ conn_nets' = Append(conn_nets, r.ref)
    /\ UNCHANGED <<flatVars, compilations, evalVars, otherVars>>

ConnNext == ProcessConnection

SpecConn == ConnInit /\ [][ConnNext]_vars

-----------------------------------------------------------------------------
(* Flattening specification: one SubcircuitFlattener flattens one Program  *)

\* the subcircuit templates the flattener is constructed with
SubcircuitTable ==
    ("Div" :> Subcircuit("Div", <<"in", "out">>,
                <<ComponentDeclaration("Resistor", "R1"),
                  ComponentDeclaration("Resistor", "R2")>>,
                <<Connection(<<Terminal("R1", "positive"), Str("in")>>, NoName),
                  Connection(<<Terminal("R1", "negative"),
                               Terminal("R2", "positive"), Str("mid")>>, "out"),
                  Connection(<<Terminal("R2", "negative"), Str("gnd")>>,
                             NoName)>>))
    @@ ("Amp" :> Subcircuit("Amp", << >>,
                <<ComponentDeclaration("Resistor", "B_R1")>>,
                <<Connection(<<Terminal("B_R1", "positive"), Str("GND")>>,
                             NoName)>>))
    @@ ("Outer" :> Subcircuit("Outer", <<"p">>,
                <<SubcircuitInstance("Div", "D", NoPorts),
                  ComponentDeclaration("Capacitor", "C1")>>,
                <<Connection(<<Terminal("C1", "positive"), Str("p")>>,
                             NoName)>>))

InstanceNames == {"A", "A_B"}

TemplateNames == {"Div", "Amp", "Outer", "Missing"}

PortConnections ==
    {NoPorts, PortList(<<"x", "y">>), PortDict(<<"in">>, <<"x">>)}

TopComponents ==
    {ComponentDeclaration("Resistor", "R1"),
     ComponentDeclaration("VoltageSource", "A_R1")}

ProgramItems ==
    TopComponents
    \cup {SubcircuitInstance(ty, n, pc) :
            ty \in TemplateNames, n \in InstanceNames, pc \in PortConnections}

RECURSIVE SeqsUpTo(_, _)
SeqsUpTo(S, n) ==
    IF n = 0 THEN {<< >>}
    ELSE LET shorter == SeqsUpTo(S, n - 1) IN
            shorter \cup {Append(q, x) : q \in shorter, x \in S}

TopConnections ==
    {<< >>,
     <<Connection(<<Terminal("R1", "positive"), Str("x")>>, NoName)>>,
     <<Connection(<<Terminal("R1", "negative"), Str("gnd")>>, NoName),
       Connection(<<Terminal("R1", "positive"), Str("x")>>, NoName)>>}

FlatInit ==
    /\ ConnIdle
    /\ IsoIdle
    /\ EvalIdle
    /\ OtherIdle
    /\ flat_in \in [components : SeqsUpTo(ProgramItems, MaxItems),
                    connections : TopConnections]
    /\ flat_subcircuits = SubcircuitTable
    /\ flat_out = FlatResult(<< >>, << >>, 0, FALSE)
    /\ flat_pc = "start"

\* flattener = SubcircuitFlattener(subcircuits); flattener.flatten_program(p)
FlattenProgramCall ==
    /\ flat_pc = "start"
    /\ flat_out' = FlattenProgram(flat_subcircuits, flat_in, 0)
    /\ flat_subcircuits' =
          SubcircuitsAfterProgram(Templates(flat_subcircuits, FALSE),
                                  flat_in.components, 1).table
    /\ flat_pc' = "done"
    /\ UNCHANGED <<flat_in, connVars, compilations, evalVars, otherVars>>

FlatNext == FlattenProgramCall

SpecFlat == FlatInit /\ [][FlatNext]_vars

-----------------------------------------------------------------------------
(* Isolation specification: two compilations, each with its own            *)
(* Interpreter and SubcircuitFlattener, take their steps in any order      *)

IsoConnections ==
    {Connection(<<Terminal("R1", "positive"), Terminal("V1", "negative")>>,
                NoName),
     Connection(<<Terminal("R1", "positive"), Str("a")>>, NoName),
     Connection(<<Terminal("V1", "negative"), Str("gnd")>>, NoName)}

IsoInstances ==
    {SubcircuitInstance("Div", "A", NoPorts),
     SubcircuitInstance("Outer", "B", PortList(<<"x">>))}

StepsTaken(c) == Len(c.connections) + Len(c.instances)

\* variant of AfterConnection: node_counter is one counter of the process,
\* read and advanced by whichever Interpreter allocates a net
AfterConnection_SharedCounter(all, k, conn) ==
    LET shared == CHOOSE n \in {all[j].interp.node_counter : j \in DOMAIN all} :
                      \A j \in DOMAIN all : all[j].interp.node_counter <= n
        r == ConnectivityStep([all[k].interp EXCEPT !.node_counter = shared],
                              conn)
    IN  [j \in DOMAIN all |->
            IF j = k
            THEN [all[j] EXCEPT !.interp = r.st,
                                !.connections = Append(@, conn)]
            ELSE [all[j] EXCEPT !.interp.node_counter = r.st.node_counter]]

\* Interpreter k runs one iteration of build_connectivity: only the fields
\* of that instance (self.node_counter, self.nodes,
\* self.terminal_connections) are read and written
AfterConnection(all, k, conn) ==
    [all EXCEPT ![k].interp = ConnectivityStep(@, conn).st,
                ![k].connections = Append(@, conn)]

\* SubcircuitFlattener k flattens one instance: only self.instance_counter
\* of that flattener changes
AfterInstance(all, k, instance) ==
    [all EXCEPT ![k].instance_counter =
                    FlattenSubcircuitInstance(SubcircuitTable, instance,
                                              @).instance_counter,
                ![k].instances = Append(@, instance)]

IsoInit ==
    /\ ConnIdle
    /\ FlatIdle
    /\ EvalIdle
    /\ OtherIdle
    /\ compilations = [k \in Compilations |-> NewCompilation]

IsoBuildStep(k) ==
    /\ StepsTaken(compilations[k]) < MaxSteps
    /\ \E conn \in IsoConnections :
        compilations' = AfterConnection(compilations, k, conn)
    /\ UNCHANGED <<connVars, flatVars, evalVars, otherVars>>

IsoFlattenStep(k) ==
    /\ StepsTaken(compilations[k]) < MaxSteps
    /\ \E instance \in IsoInstances :
        compilations' = AfterInstance(compilations, k, instance)
    /\ UNCHANGED <<connVars, flatVars, evalVars, otherVars>>

IsoNext == \E k \in Compilations : IsoBuildStep(k) \/ IsoFlattenStep(k)

SpecIso == IsoInit /\ [][IsoNext]_vars

-----------------------------------------------------------------------------
(* Evaluation specification: one Interpreter evaluates one expression      *)

\* UnitConversionVisitor.convert_literal on a numeric or non-numeric literal
\* (src/interpreter.py lines 139-160): float(value), or the string kept
ConvertLiteral(v) ==
    IF v.t = "num" THEN LiteralSI(v, Rat(v.n, v.d, TRUE)) ELSE LiteralSI(v, v)

\* self.context: a loop scope whose parent is the global scope
EvalContext == << [i |-> PyInt(2)], [x |-> PyInt(0)] >>

\* leaves: 0 as parsed, 0.0 and 2.0 and "s" after unit conversion, a bound
\* and an unbound identifier
Atoms ==
    {Literal(PyInt(0)), ConvertLiteral(PyInt(0)), ConvertLiteral(PyInt(2)),
     ConvertLiteral(StrV("s")), Identifier("x"), Identifier("y")}

\* "%" and "~" stand for operators, "foo" for a function, the evaluator
\* does not know
SomeBinaryOperators == BinaryOperators \cup {"%"}
SomeUnaryOperators == UnaryOperators \cup {"~"}
SomeFunctions == Builtins \cup {"foo"}

CallAtoms ==
    {Literal(PyInt(0)), ConvertLiteral(PyInt(2)), ConvertLiteral(StrV("s")),
     Identifier("y")}

RangeCalls ==
    {FunctionCall("range", <<ConvertLiteral(PyInt(0)), ConvertLiteral(PyInt(2)),
                             step>>) :
        step \in {ConvertLiteral(PyInt(2)), Literal(PyInt(0)), Literal(PyInt(-1))}}
    \cup {FunctionCall("range", <<Literal(PyInt(0)), Literal(PyInt(0)),
                                  Literal(PyInt(0)), Literal(PyInt(0))>>)}

\* one operator or function applied to leaves
Level1 ==
    Atoms
    \cup {OtherExpression}
    \cup {BinaryOp(l, op, r) : l \in Atoms, op \in SomeBinaryOperators, r \in Atoms}
    \cup {UnaryOp(op, e) : op \in SomeUnaryOperators, e \in Atoms}
    \cup {FunctionCall(n, as) :
            n \in SomeFunctions, as \in SeqsUpTo(CallAtoms, MaxArgs)}
    \cup RangeCalls
    \cup {ArrayLiteral(es) : es \in SeqsUpTo(CallAtoms, MaxArgs)}

NestAtoms == {Literal(PyInt(0)), Identifier("y")}

\* the expressions another operator is put around: divisions, sums and
\* applications of unknown or unary operators whose value is computed here
Nestable(e) ==
    /\ \/ e.k = "BinaryOp" /\ e.op \in {"/", "+", "%"}
       \/ e.k = "UnaryOp"
    /\ EvaluateExpression(e, EvalContext, << >>).v # Untracked

\* the expressions of S, and one more operator around the nestable ones
Nest(S) ==
    LET inner == {e \in S : Nestable(e)}
    IN  S
        \cup {BinaryOp(e, op, a) : e \in inner, op \in {"/", "+"}, a \in NestAtoms}
        \cup {BinaryOp(a, op, e) : a \in NestAtoms, op \in {"/", "+"}, e \in inner}
        \cup {UnaryOp(op, e) : op \in {"-", "~"}, e \in inner}
        \cup {FunctionCall("abs", <<e>>) : e \in inner}

RECURSIVE ExpressionsOfDepth(_)
ExpressionsOfDepth(d) ==
    IF d <= 1 THEN Level1 ELSE Nest(ExpressionsOfDepth(d - 1))

Expressions == ExpressionsOfDepth(MaxDepth)

EvalInit ==
    /\ ConnIdle
    /\ FlatIdle
    /\ IsoIdle
    /\ OtherIdle
    /\ eval_expr \in Expressions
    /\ eval_out = Evaluated(NoneV, << >>)
    /\ eval_pc = "start"

\* interpreter.evaluate_expression(expr) on a new Interpreter
EvaluateCall ==
    /\ eval_pc = "start"
    /\ eval_out' = EvaluateExpression(eval_expr, EvalContext, << >>)
    /\ eval_pc' = "returned"
    /\ UNCHANGED <<eval_expr, connVars, flatVars, compilations, otherVars>>

EvalNext == EvaluateCall

SpecEval == EvalInit /\ [][EvalNext]_vars

-----------------------------------------------------------------------------
(* Validation specification: one Program is handed to ValidationVisitor    *)
(* and to SemanticAnalyzer                                                 *)

Ohms == UnitLiteral(PyInt(100), "ohm")
Volts == UnitLiteral(PyInt(9), "V")
Polar == <<"positive", "negative">>

\* declarations as parse_component_declaration builds them (positional
\* value), with the value as a named parameter, and some that are flawed
ValComponents ==
    {DeclaredComponent("Resistor", "R1", <<Ohms>>, << >>, Polar),
     DeclaredComponent("VoltageSource", "V1", <<Volts>>, << >>, Polar),
     DeclaredComponent("Resistor", "R1", << >>, <<<<"resistance", Ohms>>>>, Polar),
     DeclaredComponent("Ammeter", "A1", << >>, << >>, Polar),
     DeclaredComponent("Resistor", "R2", <<Identifier("y")>>, << >>, Polar),
     DeclaredComponent("Transistor", "Q1", << >>, << >>, << >>),
     SubcircuitInstance("S", "X1", NoPorts)}

ValConnections ==
    {<< >>,
     <<Connection(<<Terminal("R1", "positive"), Terminal("V1", "positive")>>,
                  NoName)>>,
     <<Connection(<<Terminal("R1", "negative"), Node("ground", TRUE)>>, NoName)>>,
     <<Connection(<<Str("R1"), Str("ground")>>, "n1")>>,
     <<Connection(<<Str("Q9"), Str("R1")>>, NoName)>>}

BodyResistor == DeclaredComponent("Resistor", "R1", <<Ohms>>, << >>, Polar)
BodyConnection ==
    Connection(<<Terminal("R1", "positive"), Terminal("R7", "negative")>>, "n2")

ValSubcircuits ==
    {<< >>,
     <<SubcircuitDef("S", <<BodyResistor>>, <<BodyConnection>>, << >>)>>,
     <<SubcircuitDef("S", <<DeclaredComponent("Resistor", "R3", <<Ohms>>, << >>, Polar)>>,
                     << >>,
                     <<SubcircuitDef("T", <<DeclaredComponent("Resistor", "R3",
                                             <<Ohms>>, << >>, Polar)>>,
                                     << >>, << >>)>>)>>,
     <<SubcircuitDef("S", << >>, << >>, << >>),
       SubcircuitDef("S", <<BodyResistor, BodyResistor>>, << >>, << >>)>>}

ValMacros ==
    {<< >>,
     <<MacroDefinition("M", << >>,
            <<BodyResistor, BodyConnection, SubcircuitInstance("S", "X2", NoPorts)>>)>>}

ValAnalyses ==
    {<< >>,
     <<AnalysisBlock("main", <<DCAnalysis>>)>>,
     <<AnalysisBlock("main", <<TransientAnalysis(0, 1)>>)>>,
     <<AnalysisBlock("main", << >>)>>}

ValPrograms ==
    {Program(<<[name |-> "x"]>>, ms, ss, cs, ns, as) :
        ms \in ValMacros, ss \in ValSubcircuits,
        cs \in SeqsUpTo(ValComponents, MaxItems),
        ns \in ValConnections, as \in ValAnalyses}

ValidInit ==
    /\ ConnIdle
    /\ FlatIdle
    /\ IsoIdle
    /\ EvalIdle
    /\ ExpandIdle
    /\ NetIdle
    /\ LexIdle
    /\ ParseIdle
    /\ val_prog \in ValPrograms
    /\ val_out = ValidationVisitorInit
    /\ sem_out = ""
    /\ val_pc = [validated |-> FALSE, analyzed |-> FALSE]

\* validator = ValidationVisitor(); validator.validate_program(program)
ValidateProgramCall ==
    /\ ~val_pc.validated
    /\ val_out' = ValidateProgram(val_prog)
    /\ val_pc' = [val_pc EXCEPT !.validated = TRUE]
    /\ UNCHANGED <<val_prog, sem_out, connVars, flatVars, compilations, evalVars,
                   expVars, netVars, lexVars, parseVars>>

\* analyzer = SemanticAnalyzer(program); analyzer.analyze()
AnalyzeCall ==
    /\ ~val_pc.analyzed
    /\ sem_out' = Analyze(val_prog)
    /\ val_pc' = [val_pc EXCEPT !.analyzed = TRUE]
    /\ UNCHANGED <<val_prog, val_out, connVars, flatVars, compilations, evalVars,
                   expVars, netVars, lexVars, parseVars>>

ValidNext == ValidateProgramCall \/ AnalyzeCall

SpecValid == ValidInit /\ [][ValidNext]_vars

-----------------------------------------------------------------------------
(* Expansion specification: one Interpreter expands one Program            *)

\* bodies and top-level declarations
ExpR1 == ComponentDeclaration("Resistor", "R1")
ExpR2 == ComponentDeclaration("Resistor", "R2")
ExpM1 == ComponentDeclaration("Resistor", "M1")
ExpN1 == ComponentDeclaration("Capacitor", "N1")
ExpL1 == ComponentDeclaration("Inductor", "L1")

\* no macro; macro m; macro m whose body invokes macro n
ExpMacros ==
    { << >>,
      <<MacroDefinition("m", <<"a">>, <<ExpM1>>)>>,
      <<MacroDefinition("m", <<"a">>,
            <<ExpM1, MacroInvocation("n", <<Identifier("a")>>)>>),
        MacroDefinition("n", <<"b">>, <<ExpN1>>)>> }

\* the items of program.components: declarations, an invocation of m, an
\* invocation of an undefined macro, a loop over an array, a loop over
\* range(2) whose body invokes m, and a loop over a number
ExpItems ==
    { ExpR1, ExpR2,
      MacroInvocation("m", <<Literal(PyInt(1))>>),
      MacroInvocation("u", << >>),
      ForLoop("i", ArrayLiteral(<<Literal(PyInt(1)), Literal(PyInt(2))>>),
              <<ExpL1>>),
      ForLoop("i", FunctionCall("range", <<Literal(PyInt(2))>>),
              <<MacroInvocation("m", <<Identifier("i")>>), ExpL1>>),
      ForLoop("i", Literal(PyInt(3)), <<ExpL1>>) }

ExpPrograms ==
    {CircuitProgram(<< >>, ms, cs, << >>, << >>) :
        ms \in ExpMacros, cs \in SeqsUpTo(ExpItems, MaxItems)}

ExpandInit ==
    /\ ConnIdle
    /\ FlatIdle
    /\ IsoIdle
    /\ EvalIdle
    /\ ValidIdle
    /\ NetIdle
    /\ LexIdle
    /\ ParseIdle
    /\ exp_prog \in ExpPrograms
    /\ exp_out = Expanded(<< >>, << >>, NewInterpreter.context)
    /\ exp_pc = "start"

\* Interpreter(program).expand_macros()
ExpandMacrosCall ==
    /\ exp_pc = "start"
    /\ exp_out' = ExpandMacros(exp_prog, NewInterpreter.context,
                               NewInterpreter.errors)
    /\ exp_pc' = "done"
    /\ UNCHANGED <<exp_prog, connVars, flatVars, compilations, evalVars,
                   validVars, netVars, lexVars, parseVars>>

ExpandNext == ExpandMacrosCall

SpecExpand == ExpandInit /\ [][ExpandNext]_vars

-----------------------------------------------------------------------------
(* Netlist specification: one Interpreter writes the netlist of a Program  *)

\* a resistor of 100 ohm after unit conversion, sources declared by type
\* word and by SPICE letter, a capacitor whose value is a variable, a
\* transistor with a named parameter over an undefined identifier, a
\* declaration of type X with named terminals, and a MOSFET
NetComponents ==
    { DeclaredComponent("Resistor", "R1",
          <<LiteralSI(PyInt(100), PyFloat(100))>>, << >>, Polar),
      DeclaredComponent("VoltageSource", "V1", <<Literal(PyInt(5))>>, << >>, Polar),
      DeclaredComponent("V", "V2", <<Literal(PyInt(5))>>, << >>, << >>),
      DeclaredComponent("Capacitor", "C1", <<Identifier("x")>>, << >>, Polar),
      DeclaredComponent("Transistor", "Q1", << >>,
          << <<"beta", Identifier("y")>> >>, << >>),
      DeclaredComponent("X", "X1", << >>, << >>, <<"in", "out">>),
      DeclaredComponent("MOSFET", "M1", << >>, << >>, << >>),
      ForLoop("i", ArrayLiteral(<<Literal(PyInt(1))>>), <<ExpL1>>) }

NetInstances == { << >>, <<SubcircuitInstance("S", "U1", NoPorts)>> }

NetConnections ==
    { << >>,
      <<Connection(<<Terminal("R1", "positive"), Terminal("V1", "positive")>>,
                   NoName)>>,
      <<Connection(<<Terminal("R1", "positive"), Terminal("V2", "1"),
                     Terminal("M1", "source")>>, NoName),
        Connection(<<Terminal("R1", "negative"), Terminal("Q1", "collector"),
                     Terminal("C1", "positive")>>, NoName)>>,
      <<Connection(<<Terminal("C1", "negative"), Node("ground", TRUE)>>, NoName),
        Connection(<<Terminal("Q1", "substrate"), Terminal("V2", "2"),
                     Terminal("M1", "bulk")>>, NoName)>> }

\* x = 2.5
NetVariables == <<VariableDeclaration("x", Literal(Rat(5, 2, TRUE)))>>

NetPrograms ==
    {CircuitProgram(NetVariables, << >>, cs, is, ns) :
        cs \in SeqsUpTo(NetComponents, MaxItems),
        is \in NetInstances, ns \in NetConnections}

NetInit ==
    /\ ConnIdle
    /\ FlatIdle
    /\ IsoIdle
    /\ EvalIdle
    /\ ValidIdle
    /\ ExpandIdle
    /\ LexIdle
    /\ ParseIdle
    /\ net_prog \in NetPrograms
    /\ net_it = NewInterpreter
    /\ net_out = Generated(NewInterpreter, Lines(<< >>, << >>, ""))
    /\ net_pc = "start"

\* Interpreter(program).generate_netlist()
GenerateNetlistCall ==
    /\ net_pc = "start"
    /\ net_out' = GenerateNetlist(net_it, net_prog)
    /\ net_it' = net_out'.it
    /\ net_pc' = "done"
    /\ UNCHANGED <<net_prog, connVars, flatVars, compilations, evalVars,
                   validVars, expVars, lexVars, parseVars>>

NetNext == GenerateNetlistCall

SpecNet == NetInit /\ [][NetNext]_vars

-----------------------------------------------------------------------------
(* Lexing specification: both lexers tokenize one source text              *)

\* the words source texts are made of
LexWords ==
    {"Resistor", "Capacitor", "Inductor", "VoltageSource", "CurrentSource",
     "Connect", "Subcircuit", "Simulate", "R1", "R1.p", "RESISTOR", "CONNECT",
     "(", ";", "=", "10", "1.5e3", "+", "# c\n"}

\* the texts of up to n words, a blank before each
RECURSIVE Sources(_)
Sources(n) ==
    IF n = 0 THEN {""}
    ELSE Sources(n - 1) \cup {s \o " " \o w : s \in Sources(n - 1), w \in LexWords}

LexInit ==
    /\ ConnIdle
    /\ FlatIdle
    /\ IsoIdle
    /\ EvalIdle
    /\ ValidIdle
    /\ ExpandIdle
    /\ NetIdle
    /\ ParseIdle
    /\ lex_text \in Sources(MaxWords)
    /\ lex_regex = [code |-> lex_text, tokens |-> << >>, status |-> "start"]
    /\ lex_scan = Scanner(0, << >>, "run")

\* Lexer.py line 49: code = self.source_code.strip()
TokenizeStart ==
    /\ lex_regex.status = "start"
    /\ lex_regex' = [lex_regex EXCEPT !.code = Strip(@), !.status = "run"]
    /\ UNCHANGED <<lex_text, lex_scan, connVars, flatVars, compilations,
                   evalVars, validVars, expVars, netVars, parseVars>>

\* Lexer.py lines 50-61: one iteration of the while loop
TokenizeIteration ==
    /\ lex_regex.status = "run"
    /\ lex_regex.code # ""
    /\ lex_regex' = TokenizeRule(lex_regex, FirstMatch(lex_regex.code, 1))
    /\ UNCHANGED <<lex_text, lex_scan, connVars, flatVars, compilations,
                   evalVars, validVars, expVars, netVars, parseVars>>

\* Lexer.py lines 62-63: the EOF token ends the list
TokenizeEnd ==
    /\ lex_regex.status = "run"
    /\ lex_regex.code = ""
    /\ lex_regex' = [lex_regex EXCEPT
                        !.tokens = Append(@, Token("EOF", NoneValue)),
                        !.status = "done"]
    /\ UNCHANGED <<lex_text, lex_scan, connVars, flatVars, compilations,
                   evalVars, validVars, expVars, netVars, parseVars>>

\* lexer.py lines 241-245: one iteration of the loop of tokenize
GetNextTokenCall ==
    /\ lex_scan.status = "run"
    /\ lex_scan' = TokenizeNext(lex_scan,
                                GetNextToken(lex_text, lex_scan.pos + 1))
    /\ UNCHANGED <<lex_text, lex_regex, connVars, flatVars, compilations,
                   evalVars, validVars, expVars, netVars, parseVars>>

LexNext ==
    \/ TokenizeStart
    \/ TokenizeIteration
    \/ TokenizeEnd
    \/ GetNextTokenCall

SpecLex == LexInit /\ [][LexNext]_vars

-----------------------------------------------------------------------------
(* Parsing specification: one Parser parses one Connect statement          *)

Symbol(v) == Token("SYMBOL", v)

IdentifierToken(v) == Token("IDENTIFIER", v)

\* the token under Connect, the token after it, the tokens of the endpoint
\* list and the tokens that end the statement
FirstTokens == {Token("CONNECT", "Connect"), IdentifierToken("Connect")}

OpeningTokens == {Symbol("("), Symbol("{"), IdentifierToken("x")}

MiddleTokens ==
    {IdentifierToken("a"), Symbol("."), Symbol(","), Token("GROUND", "ground")}

ClosingTokens ==
    {<<Symbol(")"), Symbol(";")>>, <<Symbol(")"), Symbol(",")>>,
     <<Symbol(")"), Symbol(")")>>, <<Symbol(")")>>,
     <<Symbol("}"), Symbol(";")>>, <<Symbol(")"), IdentifierToken("b")>>,
     << >>}

\* the tokens of the hierarchical reference a.b.c, alone and before a second
\* endpoint
DottedPath ==
    <<IdentifierToken("a"), Symbol("."), IdentifierToken("b"), Symbol("."),
      IdentifierToken("c")>>

HierarchicalMiddles ==
    {DottedPath, DottedPath \o <<Symbol(","), Token("GROUND", "ground")>>}

ParseInputs ==
    {<<f, o>> \o m \o c : f \in FirstTokens, o \in OpeningTokens,
                          m \in SeqsUpTo(MiddleTokens, MaxMiddle)
                                   \cup HierarchicalMiddles,
                          c \in ClosingTokens}

ParseInit ==
    /\ ConnIdle
    /\ FlatIdle
    /\ IsoIdle
    /\ EvalIdle
    /\ ValidIdle
    /\ ExpandIdle
    /\ NetIdle
    /\ LexIdle
    /\ parse_tokens \in ParseInputs
    /\ parse_out = Parsed(ParserOf(<< >>))
    /\ parse_pc = "start"

\* Parser(tokens).parse_connection()
ParseConnectionCall ==
    /\ parse_pc = "start"
    /\ parse_out' = ParseConnection(ParserOf(parse_tokens))
    /\ parse_pc' = "done"
    /\ UNCHANGED <<parse_tokens, connVars, flatVars, compilations, evalVars,
                   validVars, expVars, netVars, lexVars>>

ParseNext == ParseConnectionCall

SpecParse == ParseInit /\ [][ParseNext]_vars

-----------------------------------------------------------------------------
(* Declaration specification: one Parser parses one component declaration  *)

\* the token under the component type and the token under the instance name
TypeTokens == {Token("RESISTOR", "Resistor"), IdentifierToken("Resistor")}

NameTokens == {IdentifierToken("R1"), Token("NUMBER", "1")}

\* the tokens of the parameter list and the tokens that end the statement
ParameterTokens ==
    {IdentifierToken("tol"), Symbol("="), Symbol(","), Token("NUMBER", "5")}

EndTokens == {<<Symbol(")"), Symbol(";")>>, <<Symbol(")")>>, << >>}

DeclarationInputs ==
    {<<t, n, Symbol("(")>> \o m \o e :
        t \in TypeTokens, n \in NameTokens,
        m \in SeqsUpTo(ParameterTokens, MaxParamTokens), e \in EndTokens}
    \cup {<<t, n, Symbol(";")>> : t \in TypeTokens, n \in NameTokens}

DeclInit ==
    /\ ConnIdle
    /\ FlatIdle
    /\ IsoIdle
    /\ EvalIdle
    /\ ValidIdle
    /\ ExpandIdle
    /\ NetIdle
    /\ LexIdle
    /\ parse_tokens \in DeclarationInputs
    /\ parse_out = ParsedDeclaration(DeclarationParser(<< >>), "", "")
    /\ parse_pc = "start"

\* Parser(tokens).parse_component_declaration()
ParseComponentDeclarationCall ==
    /\ parse_pc = "start"
    /\ parse_out' = ParseComponentDeclaration(DeclarationParser(parse_tokens))
    /\ parse_pc' = "done"
    /\ UNCHANGED <<parse_tokens, connVars, flatVars, compilations, evalVars,
                   validVars, expVars, netVars, lexVars>>

DeclNext == ParseComponentDeclarationCall

SpecDecl == DeclInit /\ [][DeclNext]_vars

-----------------------------------------------------------------------------
(* Repeated resolution: build_connectivity is called again on the same     *)
(* Interpreter, as every call of generate_netlist does                     *)

\* the target node of each of the connections conns[i..] when
\* build_connectivity runs on the Interpreter st
RECURSIVE TargetNodes(_, _, _)
TargetNodes(st, conns, i) ==
    IF i > Len(conns) THEN << >>
    ELSE <<ConnectivityStep(st, conns[i]).ref>>
             \o TargetNodes(ConnectivityStep(st, conns[i]).st, conns, i + 1)

RerunInit ==
    /\ interp = InterpreterInit
    /\ program \in SeqsUpTo(Connections, MaxRerunConns) \ {<< >>}
    /\ conn_nets = << >>
    /\ FlatIdle
    /\ IsoIdle
    /\ EvalIdle
    /\ OtherIdle

\* interpreter.build_connectivity(components), once more on the same object
BuildConnectivityCall ==
    /\ Len(conn_nets) < MaxRuns * Len(program)
    /\ interp' = BuildConnectivity(interp, program, 1)
    /\ conn_nets' = conn_nets \o TargetNodes(interp, program, 1)
    /\ UNCHANGED <<program, flatVars, compilations, evalVars, otherVars>>

RerunNext == BuildConnectivityCall

SpecRerun == RerunInit /\ [][RerunNext]_vars

-----------------------------------------------------------------------------
(* Recursion specification: a flattener and an Interpreter are given       *)
(* templates and macros that contain themselves                            *)

\* a template that holds an instance of itself, two templates that hold an
\* instance of each other, and two that hold no instance of themselves
RecursiveTable ==
    ("Self" :> Subcircuit("Self", << >>,
                 <<ComponentDeclaration("Resistor", "R1"),
                   SubcircuitInstance("Self", "s", NoPorts)>>, << >>))
    @@ ("Ping" :> Subcircuit("Ping", << >>,
                 <<SubcircuitInstance("Pong", "q", NoPorts)>>, << >>))
    @@ ("Pong" :> Subcircuit("Pong", << >>,
                 <<ComponentDeclaration("Capacitor", "C1"),
                   SubcircuitInstance("Ping", "p", NoPorts)>>, << >>))
    @@ ("Leaf" :> Subcircuit("Leaf", << >>,
                 <<ComponentDeclaration("Resistor", "R1")>>, << >>))
    @@ ("Tree" :> Subcircuit("Tree", << >>,
                 <<SubcircuitInstance("Leaf", "a", NoPorts),
                   SubcircuitInstance("Leaf", "b", NoPorts)>>, << >>))

RecurItems ==
    {ComponentDeclaration("Resistor", "R1")}
    \cup {SubcircuitInstance(ty, "A", NoPorts) :
            ty \in {"Self", "Ping", "Leaf", "Tree", "Missing"}}

\* a macro that invokes itself, two that invoke each other (one of them
\* from a loop), and one that invokes no macro
RecurMacros ==
    <<MacroDefinition("m", << >>, <<ExpM1, MacroInvocation("m", << >>)>>),
      MacroDefinition("a", <<"x">>,
          <<ForLoop("j", ArrayLiteral(<<Literal(PyInt(1))>>),
                    <<MacroInvocation("b", <<Literal(PyInt(2))>>)>>)>>),
      MacroDefinition("b", <<"y">>,
          <<ExpN1, MacroInvocation("a", <<Literal(PyInt(3))>>)>>),
      MacroDefinition("leaf", <<"z">>, <<ExpL1>>)>>

\* an invocation in a loop body: expand_macros drops the invocations that
\* stand in program.components themselves
InLoop(name, args) ==
    ForLoop("i", ArrayLiteral(<<Literal(PyInt(1))>>),
            <<MacroInvocation(name, args)>>)

RecurNodes ==
    {ExpR1, MacroInvocation("m", << >>), InLoop("m", << >>),
     InLoop("a", <<Literal(PyInt(1))>>), InLoop("leaf", <<Literal(PyInt(1))>>),
     InLoop("u", << >>)}

RecurInit ==
    /\ ConnIdle
    /\ IsoIdle
    /\ EvalIdle
    /\ ValidIdle
    /\ NetIdle
    /\ LexIdle
    /\ ParseIdle
    /\ flat_in \in [components : SeqsUpTo(RecurItems, MaxRecurItems),
                    connections : {<< >>}]
    /\ flat_subcircuits = RecursiveTable
    /\ flat_out = FlatResult(<< >>, << >>, 0, FALSE)
    /\ flat_pc = "start"
    /\ exp_prog \in {CircuitProgram(<< >>, RecurMacros, cs, << >>, << >>) :
                        cs \in SeqsUpTo(RecurNodes, MaxRecurItems)}
    /\ exp_out = Expanded(<< >>, << >>, NewInterpreter.context)
    /\ exp_pc = "start"

RecurNext == FlattenProgramCall \/ ExpandMacrosCall

SpecRecur == RecurInit /\ [][RecurNext]_vars

-----------------------------------------------------------------------------
(* Properties of connectivity resolution *)

\* the endpoint is spelled 'ground', 'gnd' or '0' in some letter case, or is
\* a ground-flagged Node
SpelledGround(ep) ==
    /\ ep.kind \in {"str", "Node"}
    /\ (Lower(ep.name) \in GroundWords \/ ep.is_ground)

HasGroundEndpoint(conn) ==
    \E i \in DOMAIN conn.endpoints : SpelledGround(conn.endpoints[i])

TerminalsOf(conn) ==
    {conn.endpoints[i] : i \in {j \in DOMAIN conn.endpoints :
                                    conn.endpoints[j].kind = "Terminal"}}

IsBound(st, t) ==
    /\ t.name \in DOMAIN st.terminal_connections
    /\ t.terminal_name \in DOMAIN st.terminal_connections[t.name]

BoundRef(st, t) == st.terminal_connections[t.name][t.terminal_name]

TerminalOnly(conn) ==
    \A i \in DOMAIN conn.endpoints : conn.endpoints[i].kind = "Terminal"

\* C1: every connection with an endpoint spelled ground/gnd/0 (string, parsed
\* Node or ground-flagged Node) is on net 0, and right after it is processed
\* each of its Terminal endpoints is bound to net 0.
C1_GroundAliasing ==
    \A i \in DOMAIN program :
        HasGroundEndpoint(program[i]) =>
            /\ IdOf(interp, conn_nets[i]) = 0
            /\ (i = Len(program) =>
                    \A t \in TerminalsOf(program[i]) :
                        IsBound(interp, t) /\ IdOf(interp, BoundRef(interp, t)) = 0)

\* C2: the k-th allocated net has id k (the first has id 1), ids increase in
\* allocation order, no id belongs to two NetlistNode objects, and when the
\* first two connections are terminal-only Connect statements (no ground
\* endpoint, no net name) they are on nets 1 and 2.
C2_NetIdMonotonic ==
    /\ DOMAIN interp.objs = 0 .. (interp.node_counter - 1)
    /\ \A k \in DOMAIN interp.objs : interp.objs[k].id = k
    /\ \A r1, r2 \in DOMAIN interp.objs :
            r1 < r2 => interp.objs[r1].id < interp.objs[r2].id
    /\ \A i \in DOMAIN conn_nets : conn_nets[i] \in DOMAIN interp.objs
    /\ (/\ Len(program) >= 2
        /\ \A i \in 1 .. 2 : TerminalOnly(program[i])
                              /\ program[i].net_name = NoName)
        => /\ IdOf(interp, conn_nets[1]) = 1
           /\ IdOf(interp, conn_nets[2]) = 2

C2_Witness ==
    /\ Len(program) = 3
    /\ \A i \in 1 .. 2 : TerminalOnly(program[i]) /\ program[i].net_name = NoName
    /\ interp.node_counter = 4
    /\ IdOf(interp, conn_nets[3]) = 3

\* index of the last processed connection that contains terminal t, 0 if none
LastWith(t) ==
    LET hits == {i \in DOMAIN program : t \in TerminalsOf(program[i])} IN
        IF hits = {} THEN 0 ELSE CHOOSE i \in hits : \A j \in hits : j <= i

\* C3: a terminal that occurs in connections is bound to the net of the last
\* connection (in source order) that contains it.
C3_LastWriteWins ==
    \A t \in Terminals :
        IF LastWith(t) = 0 THEN ~IsBound(interp, t)
        ELSE IsBound(interp, t) /\ BoundRef(interp, t) = conn_nets[LastWith(t)]

C3_Witness ==
    \E t \in Terminals : \E i, j \in DOMAIN program :
        /\ i < j /\ j = LastWith(t)
        /\ t \in TerminalsOf(program[i])
        /\ conn_nets[i] # conn_nets[j]
        /\ BoundRef(interp, t) = conn_nets[j]

\* the names a connection lists: its plain node names and its net name
NamesOf(conn) ==
    {conn.endpoints[i].name : i \in {j \in DOMAIN conn.endpoints :
                                        conn.endpoints[j].kind = "str"}}
    \cup (IF conn.net_name # NoName THEN {conn.net_name} ELSE {})

CoListed(x, y) ==
    \E i \in DOMAIN program : x \in NamesOf(program[i]) /\ y \in NamesOf(program[i])

\* names reachable from the set S through connections that share a name
RECURSIVE NameClosure(_)
NameClosure(S) ==
    LET S2 == S \cup UNION {NamesOf(program[i]) :
                    i \in {j \in DOMAIN program : NamesOf(program[j]) \cap S # {}}}
    IN  IF S2 = S THEN S ELSE NameClosure(S2)

SameNonGroundNet(x, y) ==
    /\ x \in DOMAIN interp.nodes /\ y \in DOMAIN interp.nodes
    /\ interp.nodes[x] = interp.nodes[y]
    /\ IdOf(interp, interp.nodes[x]) # 0

\* C4 as stated: two names never listed together in one Connect statement
\* never share a non-ground net, whatever links them indirectly.
C4_NeverTransitivelyUnified ==
    \A x, y \in DOMAIN interp.nodes :
        (x # y /\ ~CoListed(x, y)) => ~SameNonGroundNet(x, y)

\* C4 amended: two names share a non-ground net only if a chain of
\* connections with common node or net names links them; connections that
\* have only a terminal in common never put two names on one net.
C4_UnifiedOnlyThroughNames ==
    \A x, y \in DOMAIN interp.nodes :
        SameNonGroundNet(x, y) => y \in NameClosure({x})

C4_Witness ==
    \E i, j \in DOMAIN program : \E t \in Terminals :
        /\ i < j
        /\ t \in TerminalsOf(program[i]) /\ t \in TerminalsOf(program[j])
        /\ NamesOf(program[i]) = {"a"} /\ NamesOf(program[j]) = {"b"}
        /\ "a" \in DOMAIN interp.nodes /\ "b" \in DOMAIN interp.nodes
        /\ IdOf(interp, interp.nodes["a"]) # 0
        /\ IdOf(interp, interp.nodes["b"]) # 0
        /\ interp.nodes["a"] # interp.nodes["b"]

\* C5: the ground names always denote the one ground object, which has id 0,
\* and every other NetlistNode object has a non-zero id and no ground flag.
C5_ZeroIsGround ==
    /\ \A n \in GroundWords :
            n \in DOMAIN interp.nodes /\ interp.nodes[n] = GroundRef
    /\ interp.objs[GroundRef] = NetlistNode(0, "ground", TRUE)
    /\ \A r \in DOMAIN interp.objs :
            /\ (interp.objs[r].id = 0) <=> (r = GroundRef)
            /\ interp.objs[r].is_ground <=> (r = GroundRef)

\* a connection named after a ground word was processed without any ground
\* endpoint, and nets were allocated
C5_Witness ==
    /\ \E i \in DOMAIN program :
            program[i].net_name \in GroundWords /\ ~IsGroundConnection(program[i])
    /\ interp.node_counter > 2

-----------------------------------------------------------------------------
(* Properties of flattening *)

HasNoInstance(prog) ==
    \A i \in DOMAIN prog.components :
        prog.components[i].kind # "SubcircuitInstance"

\* C7: flattening a program without subcircuit instances returns its
\* component list and its connection list unchanged.
C7_FlattenIdentity ==
    (flat_pc = "done" /\ HasNoInstance(flat_in)) =>
        /\ ~flat_out.raised
        /\ flat_out.components = flat_in.components
        /\ flat_out.connections = flat_in.connections

C7_Witness ==
    /\ flat_pc = "done" /\ HasNoInstance(flat_in)
    /\ Len(flat_in.components) = 2
    /\ flat_in.components[1] # flat_in.components[2]
    /\ Len(flat_in.connections) = 2
    /\ flat_out.components = flat_in.components

\* the component instance names flattening one instance produces
FlatNamesOf(instance) ==
    LET r == FlattenSubcircuitInstance(SubcircuitTable, instance, 0) IN
        {r.components[k].instance_name : k \in DOMAIN r.components}

\* C8: the names produced for two instances with different instance names
\* are disjoint, and disjoint from the names of the top-level components.
C8_FlatNamesDisjoint ==
    flat_pc = "done" =>
        \A i, j \in DOMAIN flat_in.components :
            LET x == flat_in.components[i]
                y == flat_in.components[j]
            IN  (x.kind = "SubcircuitInstance" /\ i # j) =>
                    /\ (y.kind = "SubcircuitInstance"
                        /\ x.instance_name # y.instance_name)
                       => FlatNamesOf(x) \cap FlatNamesOf(y) = {}
                    /\ y.kind = "ComponentDeclaration"
                       => y.instance_name \notin FlatNamesOf(x)

-----------------------------------------------------------------------------
(* Properties of isolation *)

\* instance_counter after one flattener, starting at n, has flattened
\* instances[i..] and nothing else
RECURSIVE CounterAlone(_, _, _)
CounterAlone(instances, n, i) ==
    IF i > Len(instances) THEN n
    ELSE CounterAlone(instances,
            FlattenSubcircuitInstance(SubcircuitTable, instances[i],
                                      n).instance_counter, i + 1)

\* C6: whatever the interleaving, each compilation holds exactly the net-id
\* counter, name registry, terminal table and instance counter it has when
\* it processes its own connections and instances alone.
C6_Isolation ==
    \A k \in Compilations :
        /\ compilations[k].interp =
               BuildConnectivity(InterpreterInit, compilations[k].connections, 1)
        /\ compilations[k].instance_counter =
               CounterAlone(compilations[k].instances, 0, 1)

\* both compilations have allocated nets and flattened instances
C6_Witness ==
    \A k \in Compilations :
        /\ compilations[k].interp.node_counter > 1
        /\ compilations[k].instance_counter > 0

-----------------------------------------------------------------------------
(* Properties of evaluation *)

\* what an expression evaluates to on a new Interpreter
ValueOf(e) == EvaluateExpression(e, EvalContext, << >>).v

\* the diagnostics evaluating an expression appends
ErrorsOf(e) == EvaluateExpression(e, EvalContext, << >>).errors

\* e is a division whose right operand evaluates to 0
DividesByZero(e) ==
    e.k = "BinaryOp" /\ e.op = "/" /\ IsZero(ValueOf(e.right))

RECURSIVE ZeroDivisions(_)
RECURSIVE ZeroDivisionsIn(_, _)

\* the divisions by zero among the expressions es[i..]
ZeroDivisionsIn(es, i) ==
    IF i > Len(es) THEN 0 ELSE ZeroDivisions(es[i]) + ZeroDivisionsIn(es, i + 1)

\* the divisions of e, e included, whose right operand evaluates to 0
ZeroDivisions(e) ==
    CASE e.k = "BinaryOp" ->
            ZeroDivisions(e.left) + ZeroDivisions(e.right)
                + (IF DividesByZero(e) THEN 1 ELSE 0)
      [] e.k = "UnaryOp" -> ZeroDivisions(e.operand)
      [] e.k = "FunctionCall" -> ZeroDivisionsIn(e.args, 1)
      [] e.k = "ArrayLiteral" -> ZeroDivisionsIn(e.elements, 1)
      [] OTHER -> 0

Occurrences(errs, message) ==
    Cardinality({i \in DOMAIN errs : errs[i] = message})

\* C9: a division whose right operand evaluates to 0 returns +infinity and
\* appends exactly one "Division by zero" diagnostic after those of its
\* operands; the evaluation of the enclosing expression returns, with one
\* such diagnostic per division by zero in it and with the diagnostics of
\* the operand evaluated after the division
C9_DivisionByZero ==
    eval_pc = "returned" =>
        /\ Occurrences(eval_out.errors, "Division by zero")
                = ZeroDivisions(eval_expr)
        /\ DividesByZero(eval_expr) =>
                /\ eval_out.v = Inf
                /\ eval_out.errors =
                        ErrorsOf(eval_expr.left) \o ErrorsOf(eval_expr.right)
                            \o <<"Division by zero">>
        /\ (eval_expr.k = "BinaryOp" /\ DividesByZero(eval_expr.left)) =>
                /\ Len(eval_out.errors)
                        >= Len(ErrorsOf(eval_expr.left))
                            + Len(ErrorsOf(eval_expr.right))
                /\ SubSeq(eval_out.errors, 1,
                          Len(ErrorsOf(eval_expr.left))
                            + Len(ErrorsOf(eval_expr.right)))
                        = ErrorsOf(eval_expr.left) \o ErrorsOf(eval_expr.right)

\* a division by an unbound identifier, inside a sum whose right operand is
\* unbound too, has been evaluated
C9_Witness ==
    /\ eval_pc = "returned"
    /\ eval_expr.k = "BinaryOp"
    /\ eval_expr.op = "+"
    /\ DividesByZero(eval_expr.left)
    /\ eval_out.v = Inf
    /\ eval_out.errors =
            <<"Undefined identifier", "Division by zero", "Undefined identifier">>

UnknownBinary(e) == e.k = "BinaryOp" /\ e.op \notin BinaryOperators
UnknownUnary(e) == e.k = "UnaryOp" /\ e.op \notin UnaryOperators
UnknownFunction(e) == e.k = "FunctionCall" /\ e.name \notin Builtins

RECURSIVE ErrorsOfAll(_, _)
ErrorsOfAll(es, i) ==
    IF i > Len(es) THEN << >> ELSE ErrorsOf(es[i]) \o ErrorsOfAll(es, i + 1)

\* C10: an unknown identifier, an unknown binary operator, an unknown unary
\* operator and an unknown function name each evaluate to 0 and append one
\* diagnostic after those of the operands
C10_UnknownYieldsZero ==
    eval_pc = "returned" =>
        /\ (eval_expr.k = "Identifier"
                /\ ContextGet(EvalContext, eval_expr.name, 1).exc # "") =>
                /\ eval_out.v = PyInt(0)
                /\ eval_out.errors = <<"Undefined identifier">>
        /\ UnknownBinary(eval_expr) =>
                /\ eval_out.v = PyInt(0)
                /\ eval_out.errors =
                        ErrorsOf(eval_expr.left) \o ErrorsOf(eval_expr.right)
                            \o <<"Unknown binary operator">>
        /\ UnknownUnary(eval_expr) =>
                /\ IsZero(eval_out.v)
                /\ eval_out.errors =
                        ErrorsOf(eval_expr.operand) \o <<"Unknown unary operator">>
        /\ UnknownFunction(eval_expr) =>
                /\ eval_out.v = PyInt(0)
                /\ eval_out.errors =
                        ErrorsOfAll(eval_expr.args, 1) \o <<"Unknown function">>

-----------------------------------------------------------------------------
(* Properties of validation *)

\* the instance names declared by the components of a list
DeclaredNames(comps) == {comps[i].instance_name : i \in DOMAIN comps}

\* a top-level connection has a Terminal of a component no top-level
\* declaration names
UndeclaredReference(prog) ==
    \E i \in DOMAIN prog.connections :
        \E j \in DOMAIN prog.connections[i].endpoints :
            LET endpoint == prog.connections[i].endpoints[j] IN
                /\ endpoint.kind = "Terminal"
                /\ endpoint.name \notin DeclaredNames(prog.components)

\* C11: when a connection references a component that has no declaration,
\* validation fails the program: validate_program records an error (its
\* verdict is False) or analyze raises
C11_UndefinedReferenceRejected ==
    (val_pc.validated /\ val_pc.analyzed /\ UndeclaredReference(val_prog)) =>
        \/ ~Verdict(val_out)
        \/ val_out.raised # ""
        \/ sem_out # ""

\* the unit names self.valid_units permits for a component type
PermittedUnits(ty) ==
    CASE ty = "VoltageSource" -> {"V"}
      [] ty = "CurrentSource" -> {"A"}
      [] ty = "Resistor" -> {"ohm"}
      [] ty = "Capacitor" -> {"F"}
      [] ty = "Inductor" -> {"H"}
      [] OTHER -> {}

\* a declaration of a known type with its value as the one positional
\* parameter, in a permitted unit
PlainDeclaration(comp) ==
    /\ IsComponentDeclaration(comp)
    /\ comp.type_name \in ValidTypes
    /\ Len(comp.positional_params) = 1
    /\ Len(comp.named_params) = 0
    /\ comp.positional_params[1].k = "Literal"
    /\ "unit" \in DOMAIN comp.positional_params[1]
    /\ comp.positional_params[1].unit \in PermittedUnits(comp.type_name)

\* an endpoint that is ground or a positive/negative terminal of a
\* declared component
PlainEndpoint(prog, endpoint) ==
    \/ endpoint.kind = "Node" /\ endpoint.is_ground
    \/ /\ endpoint.kind = "Terminal"
       /\ endpoint.name \in DeclaredNames(prog.components)
       /\ endpoint.terminal_name \in {"positive", "negative"}

\* the programs of test_valid_circuit and test_complex_valid_circuit
ValidCircuit(prog) ==
    /\ Len(prog.components) > 0
    /\ \A i \in DOMAIN prog.components : PlainDeclaration(prog.components[i])
    /\ \A i, j \in DOMAIN prog.components :
            i # j => prog.components[i].instance_name
                        # prog.components[j].instance_name
    /\ \A i \in DOMAIN prog.connections :
            \A j \in DOMAIN prog.connections[i].endpoints :
                PlainEndpoint(prog, prog.connections[i].endpoints[j])
    /\ Len(prog.analyses) > 0
    /\ \A i \in DOMAIN prog.analyses :
            /\ Len(prog.analyses[i].simulations) > 0
            /\ \A j \in DOMAIN prog.analyses[i].simulations :
                    prog.analyses[i].simulations[j].kind = "DCAnalysis"

\* C15: analyze raises no error for a program of plain declarations,
\* connections between their positive/negative terminals or ground, and a
\* simulation block
C15_ValidCircuitAccepted ==
    (val_pc.analyzed /\ ValidCircuit(val_prog)) => sem_out = ""

\* the name n is declared by two components of the list
DeclaredTwice(comps, n) ==
    \E i, j \in DOMAIN comps :
        /\ i < j
        /\ IsComponentDeclaration(comps[i]) \/ IsSubcircuitInstance(comps[i])
        /\ IsComponentDeclaration(comps[j]) \/ IsSubcircuitInstance(comps[j])
        /\ comps[i].instance_name = n
        /\ comps[j].instance_name = n

RECURSIVE DeclaredTwiceInSubcircuit(_, _)
DeclaredTwiceInSubcircuit(subckt, n) ==
    \/ DeclaredTwice(subckt.components, n)
    \/ \E i \in DOMAIN subckt.inner_subcircuits :
            DeclaredTwiceInSubcircuit(subckt.inner_subcircuits[i], n)

\* n is declared twice in one direct scope: the top level, one subcircuit
\* body or one macro body
DuplicateInScope(prog, n) ==
    \/ DeclaredTwice(prog.components, n)
    \/ \E i \in DOMAIN prog.subcircuits :
            DeclaredTwiceInSubcircuit(prog.subcircuits[i], n)
    \/ \E i \in DOMAIN prog.macros : DeclaredTwice(prog.macros[i].body, n)

ValNames == {"R1", "R2", "R3", "V1", "A1", "Q1", "X1", "X2"}

\* C20: validate_program reports a component name as duplicate only when
\* the name is declared twice in one direct scope
C20_DuplicateOnlyInScope ==
    val_pc.validated =>
        \A n \in ValNames :
            Occurrences(val_out.errors, "Duplicate component name: " \o n) > 0
                => DuplicateInScope(val_prog, n)

-----------------------------------------------------------------------------
(* Properties of the choice of net *)

\* the plain node names of a connection in endpoint order: string endpoints
\* and the Node(name) endpoints the parser makes of bare identifiers
PlainNodeNames(conn) ==
    SelectSeq(conn.endpoints,
              LAMBDA ep : ep.kind \in {"str", "Node"} /\ ~SpelledGround(ep))

\* C18: a connection without ground endpoint is put on the net registered
\* under its net name if there is one, else on the net of its first plain
\* node name that is registered, else on a new net, which is then registered
\* under the net name (when given) and under every plain node name of the
\* connection.
C18_NetChoicePriority ==
    [][ Len(program') = Len(program) + 1 =>
          LET conn == program'[Len(program')]
              ref == conn_nets'[Len(conn_nets')]
              plain == PlainNodeNames(conn)
              hits == {i \in DOMAIN plain : plain[i].name \in DOMAIN interp.nodes}
          IN  ~HasGroundEndpoint(conn) =>
                IF conn.net_name # NoName /\ conn.net_name \in DOMAIN interp.nodes
                THEN ref = interp.nodes[conn.net_name]
                ELSE IF hits # {}
                THEN ref = interp.nodes[
                            plain[CHOOSE i \in hits : \A j \in hits : i <= j].name]
                ELSE /\ ref \notin DOMAIN interp.objs
                     /\ IdOf(interp', ref) = interp.node_counter
                     /\ conn.net_name # NoName =>
                            /\ conn.net_name \in DOMAIN interp'.nodes
                            /\ interp'.nodes[conn.net_name] = ref
                     /\ \A i \in DOMAIN plain :
                            /\ plain[i].name \in DOMAIN interp'.nodes
                            /\ interp'.nodes[plain[i].name] = ref ]_vars

-----------------------------------------------------------------------------
(* Properties of the templates *)

\* C19: flattening never changes a subcircuit template: after flatten_program
\* the flattener's templates have the components, connections, net names and
\* ports they had before the call.
C19_TemplatesNeverMutated ==
    flat_pc = "done" => flat_subcircuits = SubcircuitTable

\* two instances were flattened and the copy of a template connection
\* was renamed for instance A
C19_Witness ==
    /\ flat_pc = "done"
    /\ ~flat_out.raised
    /\ flat_out.instance_counter >= 2
    /\ \E k \in DOMAIN flat_out.connections :
          flat_out.connections[k].endpoints[1].name = "A_R1"
    /\ flat_subcircuits = SubcircuitTable

-----------------------------------------------------------------------------
(* Properties of macro expansion *)

\* the components with every invocation and loop written out where it stands
InPlaceExpansion(prog) ==
    ExpandNodeList(prog.components, MacroDefs(prog.macros, Len(prog.macros)),
                   NewInterpreter.context, << >>, 1, 1).result

\* C14: the node list expand_macros returns is program.components with every
\* invocation of a defined macro and every loop, those at top level
\* included, replaced where it stands by its expanded body, the other nodes
\* kept in order.
C14_ExpandedInPlace ==
    exp_pc = "done" => exp_out.result = InPlaceExpansion(exp_prog)

-----------------------------------------------------------------------------
(* Properties of netlist generation *)

\* every item of program.components is a ComponentDeclaration
OnlyDeclarations(prog) ==
    \A i \in DOMAIN prog.components :
        IsComponentDeclaration(prog.components[i])

\* format_component raises for comp
FormatFails(comp) == FormatComponent(NewInterpreter, comp).exc # ""

\* the line format_component returned, if it returned
ReturnedLine(f) == IF f.exc # "" THEN << >> ELSE <<f.line>>

\* the lines of the items format_component returns a line for, in order
RECURSIVE LinesOf(_, _, _)
LinesOf(it, comps, i) ==
    IF i > Len(comps) THEN << >>
    ELSE ReturnedLine(FormatComponent(it, comps[i])) \o LinesOf(it, comps, i + 1)

\* the diagnostic generate_netlist records when format_component raised f
\* for comp
FormattingDiagnostic(comp, f) ==
    "Error formatting component " \o comp.instance_name \o ": " \o f.exc

\* comp cannot be formatted and errs holds the diagnostic for it, or comp
\* can be
DiagnosedIn(errs, comp, f) ==
    f.exc # "" => Occurrences(errs, FormattingDiagnostic(comp, f)) > 0

Floating(prog, comp) ==
    /\ IsComponentDeclaration(comp)
    /\ \A c \in DOMAIN prog.connections :
          \A e \in DOMAIN prog.connections[c].endpoints :
              LET ep == prog.connections[c].endpoints[e] IN
                  ~(ep.kind = "Terminal" /\ ep.name = comp.instance_name)

HasFloatingComponent(prog) ==
    \E i \in DOMAIN prog.components : Floating(prog, prog.components[i])

\* C16: generate_netlist raises, and returns no lines, for a program that
\* declares a floating component.
C16_FloatingComponentRaises ==
    (net_pc = "done" /\ HasFloatingComponent(net_prog)) =>
        net_out.raised # ""

-----------------------------------------------------------------------------
(* Properties of the lexers and of the parser *)

\* the component-type words and the structural keywords
ComponentWords ==
    {"Resistor", "Capacitor", "Inductor", "VoltageSource", "CurrentSource"}
StructuralKeywords == {"Connect", "Subcircuit", "Simulate"}

\* no token of a component-type word or structural keyword has the generic
\* identifier type
NeverIdentifier(tokens) ==
    \A k \in DOMAIN tokens :
        tokens[k].value \in ComponentWords \cup StructuralKeywords =>
            tokens[k].type \notin {"IDENTIFIER", "ID"}

\* C17: every component-type word and every structural keyword of the
\* source is emitted by the lexer as a token of its own kind, never as a
\* generic identifier token.
C17_ReservedWordsKeepTheirKind ==
    /\ NeverIdentifier(lex_regex.tokens)
    /\ NeverIdentifier(lex_scan.tokens)

\* C13: where the grammar of Connect requires "(", ")" or ";" and the
\* current token is another symbol, the parser raises a ParserError; a
\* Connection is returned only for tokens with "(" after Connect and
\* ")" ";" at the end.
C13_WrongSymbolRaises ==
    (parse_pc = "done" /\ ~parse_out.raised) =>
        /\ parse_tokens[2] = Symbol("(")
        /\ parse_tokens[parse_out.index - 1] = Symbol(")")
        /\ parse_tokens[parse_out.index] = Symbol(";")

\* m is the token list of s1.s2...sn with n >= 2
IsDottedPath(m) ==
    /\ Len(m) >= 3
    /\ Len(m) % 2 = 1
    /\ \A k \in 1..Len(m) :
           IF k % 2 = 1 THEN m[k].type = "IDENTIFIER" ELSE m[k] = Symbol(".")

RECURSIVE JoinedNames(_, _)

\* the segments of the dotted path m up to the one at position k, joined
\* with '.'
JoinedNames(m, k) ==
    IF k = 1 THEN m[1].value
    ELSE JoinedNames(m, k - 2) \o "." \o m[k].value

\* the endpoint list of Connect(...) when it is one dotted path
SoleEndpointTokens(tokens) == SubSeq(tokens, 3, Len(tokens) - 2)

\* the tokens are Connect ( s1.s2...sn ) ;
ConnectsDottedPath(tokens) ==
    /\ Len(tokens) >= 7
    /\ tokens[1] = Token("CONNECT", "Connect")
    /\ tokens[2] = Symbol("(")
    /\ tokens[Len(tokens) - 1] = Symbol(")")
    /\ tokens[Len(tokens)] = Symbol(";")
    /\ IsDottedPath(SoleEndpointTokens(tokens))

\* the Terminal of the dotted path m: s1 through s(n-1) joined with '.' as
\* the component name and sn as the terminal name
DottedTerminal(m) == Terminal(JoinedNames(m, Len(m) - 2), m[Len(m)].value)

\* C27: for a dotted endpoint s1.s2...sn with n >= 2 segments inside
\* Connect(...), the parser produces the Terminal whose component name is
\* s1 through s(n-1) joined with '.' and whose terminal name is sn, for
\* every n and not only for n = 2.
C27_DottedPathJoined ==
    (parse_pc = "done" /\ ConnectsDottedPath(parse_tokens)) =>
        /\ ~parse_out.raised
        /\ parse_out.connection.endpoints
               = <<DottedTerminal(SoleEndpointTokens(parse_tokens))>>

\* the parameter that starts at token k is a named one: key = expr
NamedAt(tokens, k) ==
    /\ k + 2 <= Len(tokens)
    /\ tokens[k].type = "IDENTIFIER"
    /\ tokens[k + 1] = Symbol("=")
    /\ tokens[k + 2].type \in {"NUMBER", "IDENTIFIER"}

\* the parameter that starts at token k, after a comma, is a positional one
PositionalAt(tokens, k) ==
    /\ tokens[k].type = "NUMBER"
    /\ tokens[k - 1] = Symbol(",")

\* in the parameter list, which opens at token 3, a positional parameter
\* starts after a named one
PositionalAfterNamed(tokens) ==
    /\ Len(tokens) >= 3
    /\ tokens[3] = Symbol("(")
    /\ \E i, j \in 4..Len(tokens) :
           i + 2 < j /\ NamedAt(tokens, i) /\ PositionalAt(tokens, j)

\* C26: in a component declaration's parameter list, once a named
\* 'key=expr' parameter has been parsed, any later positional parameter
\* makes the parser raise a parse error; a successfully parsed declaration
\* has all its positional parameters before all its named ones.
C26_PositionalAfterNamedRaises ==
    (parse_pc = "done" /\ PositionalAfterNamed(parse_tokens)) =>
        parse_out.raised

-----------------------------------------------------------------------------
(* Properties of the flattened template bodies *)

\* the top-level components of the program that are instances of a template
\* the flattener knows
KnownInstances(prog) ==
    {c \in DOMAIN prog.components :
        /\ prog.components[c].kind = "SubcircuitInstance"
        /\ prog.components[c].type_name \in DOMAIN SubcircuitTable}

\* the port names that port_connections binds to a target: the keys of a
\* mapping keyed by port name, the first ports for a positional list
BoundPorts(ports, pc) ==
    IF pc.form = "dict"
    THEN {pc.keys[j] : j \in DOMAIN pc.keys}
             \cap {ports[j] : j \in DOMAIN ports}
    ELSE {ports[j] : j \in {h \in DOMAIN ports : h <= PortConnLen(pc)}}

\* the external target port_connections binds to the bound port p
BoundTarget(ports, pc, p) ==
    IF pc.form = "dict"
    THEN pc.values[CHOOSE j \in DOMAIN pc.keys : pc.keys[j] = p]
    ELSE pc.values[CHOOSE j \in DOMAIN ports : ports[j] = p]

\* made has the endpoints of the template connection conn, terminal for
\* terminal, for the instance whose prefix is prefix
IsCopyOf(made, conn, prefix) ==
    /\ Len(made.endpoints) = Len(conn.endpoints)
    /\ \A i \in DOMAIN conn.endpoints :
          conn.endpoints[i].kind = "Terminal" =>
              made.endpoints[i] = Terminal(prefix \o conn.endpoints[i].name,
                                           conn.endpoints[i].terminal_name)

\* C21: when an instance of a known template is flattened, every plain
\* endpoint name of a copied template connection that is a port name is
\* replaced by the target the instance's port connections bind to that port,
\* and every other plain name that is not ground is prefixed with the
\* instance name and "_".
C21_PortsReplacedOthersPrefixed ==
    flat_pc = "done" =>
        \A c \in KnownInstances(flat_in) :
            LET x == flat_in.components[c]
                t == SubcircuitTable[x.type_name]
                prefix == x.instance_name \o "_"
            IN  \A k \in DOMAIN t.connections :
                  \E m \in DOMAIN flat_out.connections :
                    /\ IsCopyOf(flat_out.connections[m], t.connections[k], prefix)
                    /\ \A i \in DOMAIN t.connections[k].endpoints :
                          LET ep == t.connections[k].endpoints[i]
                              made == flat_out.connections[m].endpoints[i]
                          IN  ep.kind = "str" =>
                                IF ep.name \in BoundPorts(t.ports,
                                                          x.port_connections)
                                THEN made = Str(BoundTarget(t.ports,
                                               x.port_connections, ep.name))
                                ELSE (/\ ep.name \notin
                                            {t.ports[j] : j \in DOMAIN t.ports}
                                      /\ ~SpelledGround(ep))
                                     => made = Str(prefix \o ep.name)

\* C22: when a template contains an instance of another known template,
\* flattening an instance of the outer template returns the renamed
\* components and the renamed connections of the inner template as well.
C22_NestedInstanceKept ==
    (flat_pc = "done" /\ ~flat_out.raised) =>
        \A c \in KnownInstances(flat_in) :
            LET x == flat_in.components[c]
                t == SubcircuitTable[x.type_name]
                prefix == x.instance_name \o "_"
            IN  \A j \in DOMAIN t.components :
                  (/\ t.components[j].kind = "SubcircuitInstance"
                   /\ t.components[j].type_name \in DOMAIN SubcircuitTable)
                  => LET inner == SubcircuitTable[t.components[j].type_name]
                         inner_prefix ==
                             prefix \o t.components[j].instance_name \o "_"
                     IN  /\ \A h \in DOMAIN inner.components :
                               \E m \in DOMAIN flat_out.components :
                                  flat_out.components[m].instance_name =
                                     inner_prefix
                                        \o inner.components[h].instance_name
                         /\ \A k \in DOMAIN inner.connections :
                               \E m \in DOMAIN flat_out.connections :
                                  IsCopyOf(flat_out.connections[m],
                                           inner.connections[k], inner_prefix)

\* C30: flattening preserves ground: the copy of a template connection with
\* an endpoint spelled 'ground', 'gnd' or '0' in any letter case, or flagged
\* as ground, is still a ground connection for build_connectivity.
C30_FlatteningPreservesGround ==
    (flat_pc = "done" /\ ~flat_out.raised) =>
        \A c \in KnownInstances(flat_in) :
            LET x == flat_in.components[c]
                t == SubcircuitTable[x.type_name]
            IN  \A k \in DOMAIN t.connections :
                  HasGroundEndpoint(t.connections[k]) =>
                    \E m \in DOMAIN flat_out.connections :
                      /\ IsCopyOf(flat_out.connections[m], t.connections[k],
                                  x.instance_name \o "_")
                      /\ IsGroundConnection(flat_out.connections[m])

-----------------------------------------------------------------------------
(* Properties of repeated resolution *)

\* the net id the terminal t of component c is bound to
BoundNetId(st, c, t) == IdOf(st, st.terminal_connections[c][t])

\* C29: a call of build_connectivity after the first one, on the same
\* Interpreter and program, leaves every (component, terminal) binding on
\* the net id it had and allocates no new net id.
C29_SecondRunChangesNothing ==
    [][ (Len(conn_nets) >= Len(program) /\ Len(conn_nets') > Len(conn_nets)) =>
          /\ interp'.node_counter = interp.node_counter
          /\ \A c \in DOMAIN interp.terminal_connections :
                \A t \in DOMAIN interp.terminal_connections[c] :
                    BoundNetId(interp', c, t) = BoundNetId(interp, c, t) ]_vars

-----------------------------------------------------------------------------
(* Properties of the netlist lines *)

\* line.split(): the words of a netlist line from position i on
RECURSIVE Words(_, _)
Words(line, i) ==
    IF i > Len(line) THEN << >>
    ELSE IF CharAt(line, i) = " " THEN Words(line, i + 1)
    ELSE <<SubSeq(line, i, i + SpanLen(line, CharsOf(line) \ {" "}, i) - 1)>>
             \o Words(line, i + SpanLen(line, CharsOf(line) \ {" "}, i))

\* the terminals bound for the component in the Interpreter state st
BoundTerminals(st, comp) ==
    IF comp.instance_name \in DOMAIN st.terminal_connections
    THEN st.terminal_connections[comp.instance_name]
    ELSE << >>

\* the declarations of the program whose line is the netlist line words
DeclarationsOf(prog, words) ==
    {i \in DOMAIN prog.components :
        /\ IsComponentDeclaration(prog.components[i])
        /\ Len(words) >= 1
        /\ prog.components[i].instance_name = words[1]}

\* what the source rule of format_component returns for comp: the line of
\* the same declaration under the SPICE letter of its type
SourceRuleLine(it, comp) ==
    FormatComponent(it, [comp EXCEPT !.type_name =
                            IF @ = "VoltageSource" THEN "V" ELSE "I"]).line

\* C25: a component declared as VoltageSource or CurrentSource is formatted
\* by the source rule: 'name n+ n- DC value' for one positional parameter,
\* 'name n+ n- DC v1 AC v2' for two or more.
C25_SourcesUseSourceRule ==
    (net_pc = "done" /\ net_out.raised = "") =>
        \A i \in DOMAIN net_prog.components :
            (/\ IsComponentDeclaration(net_prog.components[i])
             /\ net_prog.components[i].type_name
                    \in {"VoltageSource", "CurrentSource"}
             /\ Len(net_prog.components[i].positional_params) >= 1)
            => \E k \in DOMAIN net_out.lines :
                  net_out.lines[k] = SourceRuleLine(net_it, net_prog.components[i])

\* the terminal slots a line of the given type always prints, in the order
\* of the line: the positional name and the aliases of each slot, and the
\* slot whose net an unbound slot takes (0: none, it goes to ground)
TerminalSlots(comp_type, terminals) ==
    CASE comp_type \in {"r", "resistor", "c", "capacitor", "l", "inductor",
                        "v", "vsource", "voltage_source",
                        "i", "isource", "current_source"} ->
            << [keys |-> <<"1", "positive">>, fallback |-> 0],
               [keys |-> <<"2", "negative">>, fallback |-> 0] >>
      [] comp_type \in {"d", "diode"} ->
            << [keys |-> <<"1", "anode">>, fallback |-> 0],
               [keys |-> <<"2", "cathode">>, fallback |-> 0] >>
      [] comp_type \in {"q", "bjt", "transistor"} ->
            << [keys |-> <<"1", "collector">>, fallback |-> 0],
               [keys |-> <<"2", "base">>, fallback |-> 0],
               [keys |-> <<"3", "emitter">>, fallback |-> 0] >>
      [] comp_type \in {"m", "mosfet"} ->
            << [keys |-> <<"1", "drain">>, fallback |-> 0],
               [keys |-> <<"2", "gate">>, fallback |-> 0],
               [keys |-> <<"3", "source">>, fallback |-> 0],
               [keys |-> <<"4", "bulk", "substrate">>, fallback |-> 3] >>
      [] comp_type \in {"opamp", "op_amp"} ->
            << [keys |-> <<"1", "non_inverting", "+">>, fallback |-> 0],
               [keys |-> <<"2", "inverting", "-">>, fallback |-> 0] >>
      [] comp_type \in {"x", "subcircuit", "subckt"} -> << >>
      [] OTHER ->
            [j \in 1..Cardinality(DOMAIN terminals) |->
                [keys |-> <<ToString(j)>>, fallback |-> 0]]

\* the slot is bound under none of its names
Unbound(terminals, slot) ==
    \A j \in DOMAIN slot.keys : slot.keys[j] \notin DOMAIN terminals

\* the netlist line words prints, for every unbound slot of the component,
\* net 0 when ground_only or the slot names no other slot, else the net of
\* the slot it names
UnboundSlotsDefault(words, comp, terminals, ground_only) ==
    \A s \in DOMAIN TerminalSlots(Lower(comp.type_name), terminals) :
        LET slot == TerminalSlots(Lower(comp.type_name), terminals)[s] IN
            Unbound(terminals, slot) =>
                /\ Len(words) >= s + 1
                /\ words[s + 1] = IF ground_only \/ slot.fallback = 0 THEN "0"
                                  ELSE words[slot.fallback + 1]

-----------------------------------------------------------------------------
(* Properties of recursion and of the environment *)

\* C23: whenever expand_macros finishes, by returning or by an exception
\* raised while a macro body or loop body is expanded, the current
\* environment is the one that was current before the call.
C23_EnvironmentRestored ==
    exp_pc = "done" => exp_out.context = NewInterpreter.context

\* the templates the body of template name holds an instance of
InnerTemplates(table, name) ==
    {table[name].components[j].type_name :
        j \in {h \in DOMAIN table[name].components :
                 table[name].components[h].kind = "SubcircuitInstance"}}
        \cap DOMAIN table

\* the templates reached from the templates names in at most n steps
RECURSIVE TemplatesWithin(_, _, _)
TemplatesWithin(table, names, n) ==
    IF n = 0 THEN names
    ELSE TemplatesWithin(table,
             names \cup UNION {InnerTemplates(table, x) : x \in names}, n - 1)

\* the body of template name holds, transitively, an instance of name
ContainsItself(table, name) ==
    /\ name \in DOMAIN table
    /\ name \in TemplatesWithin(table, InnerTemplates(table, name),
                                Cardinality(DOMAIN table))

\* the program holds an instance of a template that contains itself
FlattensItself(table, prog) ==
    \E c \in DOMAIN prog.components :
        /\ prog.components[c].kind = "SubcircuitInstance"
        /\ ContainsItself(table, prog.components[c].type_name)

\* the defined macros the nodes invoke, those invoked from loop bodies
\* included, depth being the nesting of loops looked into
RECURSIVE InvokedBy(_, _, _)
InvokedBy(nodes, macro_defs, depth) ==
    ({nodes[j].name : j \in {h \in DOMAIN nodes : IsMacroInvocation(nodes[h])}}
        \cap DOMAIN macro_defs)
    \cup (IF depth = 0 THEN {}
          ELSE UNION {InvokedBy(nodes[j].body, macro_defs, depth - 1) :
                        j \in {h \in DOMAIN nodes : IsForLoop(nodes[h])}})

\* the macros reached from the macros names in at most n steps
RECURSIVE MacrosWithin(_, _, _)
MacrosWithin(macro_defs, names, n) ==
    IF n = 0 THEN names
    ELSE MacrosWithin(macro_defs,
             names \cup UNION {InvokedBy(macro_defs[x].body, macro_defs,
                                         MaxDepth) : x \in names}, n - 1)

\* the body of macro name invokes, transitively, the macro name
InvokesItself(macro_defs, name) ==
    name \in MacrosWithin(macro_defs,
                          InvokedBy(macro_defs[name].body, macro_defs, MaxDepth),
                          Cardinality(DOMAIN macro_defs))

\* expand_macros expands a macro that invokes itself
ExpandsItself(prog) ==
    LET macro_defs == MacroDefs(prog.macros, Len(prog.macros)) IN
        \E name \in InvokedBy(WithoutInvocations(prog.components, 1),
                              macro_defs, MaxDepth) :
            InvokesItself(macro_defs, name)

\* C28 as stated: flattening an instance of a template that contains itself,
\* and expanding a macro that invokes itself, never terminate.
C28_NeverTerminates ==
    /\ FlattensItself(flat_subcircuits, flat_in) => flat_pc # "done"
    /\ ExpandsItself(exp_prog) => exp_pc # "done"

\* C28, amended: without depth or cycle guard, flattening an instance of a
\* template that contains itself, and expanding a macro that invokes
\* itself, recurse until Python's recursion limit is reached and are left by
\* RecursionError; nothing is returned, and self.errors holds no diagnostic
\* but those of undefined macros.
C28_LeftByRecursionError ==
    /\ (flat_pc = "done" /\ FlattensItself(flat_subcircuits, flat_in)) =>
          /\ flat_out.exc = "RecursionError"
          /\ flat_out.components = << >>
          /\ flat_out.connections = << >>
    /\ (exp_pc = "done" /\ ExpandsItself(exp_prog)) =>
          /\ exp_out.raised = "RecursionError"
          /\ exp_out.result = << >>
          /\ \A k \in DOMAIN exp_out.errors :
                exp_out.errors[k] = "Undefined macro: u"

\* a template that contains itself through another one was flattened, and a
\* macro that invokes itself through another one was expanded
C28_Witness ==
    /\ flat_pc = "done"
    /\ flat_in.components = <<SubcircuitInstance("Ping", "A", NoPorts)>>
    /\ flat_out.exc = "RecursionError"
    /\ exp_pc = "done"
    /\ exp_prog.components = <<InLoop("a", <<Literal(PyInt(1))>>)>>
    /\ exp_out.raised = "RecursionError"

=============================================================================
